---- MODULE Spec2Model ----
(***************************************************************************)
(* Model of the H.A.T. assessment backend (src/server.js, second listing,  *)
(* lines 917-2014): the candidate exam state machine (login, setup,        *)
(* submit, fail, onboard, resend-credentials) and the exam assembler.      *)
(*                                                                         *)
(* Every `await` of a handler is a scheduling point, so a handler is a     *)
(* chain of actions, one per stretch of code between two awaits (a stretch *)
(* that touches no shared state is folded into the action after it).       *)
(***************************************************************************)
EXTENDS Integers, Sequences, FiniteSets, Bags, TLC

VARIABLES candidates, questions, tokens, reqs, resultMails, verdictWrites, response,
          examsServed, enrollmentUsers, quizzerUsers, programmes

vars == <<candidates, questions, tokens, reqs, resultMails, verdictWrites, response,
          examsServed, enrollmentUsers, quizzerUsers, programmes>>

(***************************************************************************)
(* Bounds                                                                  *)
(***************************************************************************)
\* number of requests that can be in flight at the same time
MaxReqs == 2
\* number of enrollment requests (onboard, resend) among them
MaxAdminReqs == 2
\* number of questions of one tier in a bank (assembler specification)
MaxPerTier == 2
\* number of questions of an unknown or missing tier in a bank
MaxOther == 1
\* number of questions the stores of the bank specification hold
MaxStored == 2

\* A string is a sequence of symbols: one-character strings where the code
\* looks inside the text, whole words where it only copies or compares it.
\* undefined / null / a missing JSON member or document field
NULL == <<"<undefined>">>

(***************************************************************************)
(* JavaScript string and number helpers                                    *)
(***************************************************************************)
Digits == <<"0", "1", "2", "3", "4", "5", "6", "7", "8", "9">>

IsDigit(ch) == \E i \in 1..10 : Digits[i] = ch

DigitVal(ch) == (CHOOSE i \in 1..10 : Digits[i] = ch) - 1

IsSpace(ch) == ch = " "

\* a string value is truthy unless it is undefined or the empty string
Truthy(v) == v # NULL /\ v # <<>>

\* the result of a numeric parse: NaN, or a number
NaN == [nan |-> TRUE, val |-> 0]

Num(n) == [nan |-> FALSE, val |-> n]

\* (p || d) for a parsed number p: NaN and 0 are falsy
NumOr(p, d) == IF p.nan \/ p.val = 0 THEN d ELSE p.val

RECURSIVE SkipSpaces(_)
SkipSpaces(s) ==
  IF s # <<>> /\ IsSpace(Head(s)) THEN SkipSpaces(Tail(s)) ELSE s

RECURSIVE DropTrailingSpaces(_)
DropTrailingSpaces(s) ==
  IF s # <<>> /\ IsSpace(s[Len(s)])
    THEN DropTrailingSpaces(SubSeq(s, 1, Len(s) - 1))
    ELSE s

\* String.prototype.trim
Trim(s) == DropTrailingSpaces(SkipSpaces(s))

\* index of the first occurrence of ch in s, 0 when there is none
IndexOf(s, ch) ==
  IF \E i \in 1..Len(s) : s[i] = ch
    THEN CHOOSE i \in 1..Len(s) : s[i] = ch /\ \A k \in 1..(i - 1) : s[k] # ch
    ELSE 0

\* String.prototype.split with a one-character separator
RECURSIVE Split(_, _)
Split(s, sep) ==
  LET i == IndexOf(s, sep) IN
  IF i = 0 THEN <<s>>
  ELSE <<SubSeq(s, 1, i - 1)>> \o Split(SubSeq(s, i + 1, Len(s)), sep)

\* the longest prefix of s made of digits
RECURSIVE DigitPrefix(_)
DigitPrefix(s) ==
  IF s # <<>> /\ IsDigit(Head(s)) THEN <<Head(s)>> \o DigitPrefix(Tail(s)) ELSE <<>>

RECURSIVE DigitsValue(_, _)
DigitsValue(ds, acc) ==
  IF ds = <<>> THEN acc ELSE DigitsValue(Tail(ds), 10 * acc + DigitVal(Head(ds)))

\* sign of a numeric literal and the text after it
SignOf(s) == IF s # <<>> /\ Head(s) = "-" THEN -1 ELSE 1

Unsigned(s) == IF s # <<>> /\ (Head(s) = "-" \/ Head(s) = "+") THEN Tail(s) ELSE s

\* parseInt(v): leading blanks, an optional sign, then decimal digits;
\* NaN when no digit follows (and for undefined)
ParseInt(v) ==
  IF v = NULL THEN NaN
  ELSE LET t  == SkipSpaces(v)
           ds == DigitPrefix(Unsigned(t))
       IN IF ds = <<>> THEN NaN ELSE Num(SignOf(t) * DigitsValue(ds, 0))

\* numbers are kept as integers scaled by Scale (four decimal places)
Scale == 10000

RECURSIVE FractionValue(_, _)
FractionValue(ds, weight) ==
  IF ds = <<>> \/ weight = 0 THEN 0
  ELSE DigitVal(Head(ds)) * weight + FractionValue(Tail(ds), weight \div 10)

\* parseFloat(v): leading blanks, an optional sign, digits, an optional
\* fraction; NaN when neither digits nor a fraction follow.  The result is
\* the value times Scale.
ParseFloat(v) ==
  IF v = NULL THEN NaN
  ELSE LET t    == SkipSpaces(v)
           u    == Unsigned(t)
           ip   == DigitPrefix(u)
           rest == SubSeq(u, Len(ip) + 1, Len(u))
           fp   == IF rest # <<>> /\ Head(rest) = "." THEN DigitPrefix(Tail(rest)) ELSE <<>>
       IN IF ip = <<>> /\ fp = <<>> THEN NaN
          ELSE Num(SignOf(t) * (DigitsValue(ip, 0) * Scale + FractionValue(fp, Scale \div 10)))

RECURSIVE NatToStr(_)
NatToStr(n) ==
  IF n < 10 THEN <<Digits[n + 1]>> ELSE NatToStr(n \div 10) \o <<Digits[(n % 10) + 1]>>

\* toFixed(1) cutting the digits after the first decimal instead of rounding
ToFixed1Truncating(h) ==
  LET a      == IF h < 0 THEN 0 - h ELSE h
      tenths == a \div 10
      body   == NatToStr(tenths \div 10) \o <<".">> \o NatToStr(tenths % 10)
  IN IF h < 0 THEN <<"-">> \o body ELSE body

\* (x).toFixed(1) for x given in hundredths (x = h / 100): the nearest
\* tenth, then the integer part, a point and one digit
ToFixed1(h) ==
  LET a      == IF h < 0 THEN 0 - h ELSE h
      tenths == (a + 5) \div 10
      body   == NatToStr(tenths \div 10) \o <<".">> \o NatToStr(tenths % 10)
  IN IF h < 0 THEN <<"-">> \o body ELSE body

\* String.prototype.toLowerCase, symbol by symbol
LowerSym(ch) ==
  CASE ch = "A" -> "a"
    [] ch = "B" -> "b"
    [] ch = "T" -> "t"
    [] ch = "Easy" -> "easy"
    [] ch = "HARD" -> "hard"
    [] OTHER -> ch

ToLowerCase(s) == [i \in 1..Len(s) |-> LowerSym(s[i])]

\* the text a template literal `${v}` produces
TemplateText(v) == IF v = NULL THEN <<"u", "n", "d", "e", "f", "i", "n", "e", "d">> ELSE v

(***************************************************************************)
(* Documents, tokens and requests                                          *)
(***************************************************************************)
\* candidateSchema: the fields the exam state machine reads or writes
\* (_id is the position of the document in the collection)
NewCandidate(id, email, username, password, taEmail, program, project) ==
  [ id        |-> id,
    email     |-> email,
    username  |-> username,
    password  |-> password,
    taEmail   |-> taEmail,
    program   |-> program,
    project   |-> project,
    status    |-> <<"Mail Sent">>,
    result    |-> NULL,
    score     |-> NULL,
    videoLink |-> NULL ]

\* the value of `candidate` when a query finds nothing
NoDoc == NewCandidate(0, NULL, NULL, NULL, NULL, NULL, NULL)

VerdictFields == {"status", "result", "score", "videoLink"}

\* the paths document.save() writes: those whose value differs from the
\* value the document was loaded with
ModifiedPaths(loaded, doc) == {f \in DOMAIN doc : doc[f] # loaded[f]}

\* document.save(): $set / $unset of the modified paths on the stored document
SaveDoc(stored, loaded, doc) ==
  [f \in DOMAIN stored |-> IF f \in ModifiedPaths(loaded, doc) THEN doc[f] ELSE stored[f]]

\* Candidate.findById / findOne
FindById(id) == IF id \in 1..Len(candidates) THEN candidates[id] ELSE NoDoc

FindOneBy(field, value) ==
  IF \E i \in 1..Len(candidates) : candidates[i][field] = value
    THEN candidates[CHOOSE i \in 1..Len(candidates) :
                      /\ candidates[i][field] = value
                      /\ \A k \in 1..(i - 1) : candidates[k][field] # value]
    ELSE NoDoc

\* the payload of a signed token; `expired` tells whether jwt.verify still
\* accepts it (tokens of one payload are told apart by this only)
TestTakerToken(doc, bank) ==
  [scope |-> "test-taker", role |-> "none", id |-> doc.id, email |-> NULL, bank |-> bank,
   expired |-> FALSE]

AdminToken(scope, role, email) ==
  [scope |-> scope, role |-> role, id |-> 0, email |-> email, bank |-> NULL,
   expired |-> FALSE]

\* a request that carries no Authorization header
NoToken ==
  [scope |-> "none", role |-> "none", id |-> 0, email |-> NULL, bank |-> NULL,
   expired |-> FALSE]

\* authorize without the test of the role
AuthorizeWithoutRoles(tok, allowedRoles, allowedScope) ==
  IF tok = NoToken THEN 401
  ELSE IF tok.expired THEN 403
  ELSE IF tok.scope # allowedScope THEN 403
  ELSE 0

\* the middleware accepting a token whose expiry has passed
AuthorizeIgnoringExpiry(tok, allowedRoles, allowedScope) ==
  IF tok = NoToken THEN 401
  ELSE IF tok.scope # allowedScope THEN 403
  ELSE IF allowedRoles # {} /\ tok.role \notin allowedRoles THEN 403
  ELSE 0

\* authenticateToken followed by authorize(allowedRoles, allowedScope):
\* 0 when the request may proceed, else the status of the rejection.
\* allowedRoles = {} stands for null (no role check).
Authorize(tok, allowedRoles, allowedScope) ==
  IF tok = NoToken THEN 401
  ELSE IF tok.expired THEN 403
  ELSE IF tok.scope # allowedScope THEN 403
  ELSE IF allowedRoles # {} /\ tok.role \notin allowedRoles THEN 403
  ELSE 0

\* the locals of a request: no request
Idle ==
  [ kind |-> "none", pc |-> "idle", tok |-> NoToken, loaded |-> NoDoc, doc |-> NoDoc,
    args |-> <<>>, resp |-> 0, out |-> <<>>, sawClosed |-> FALSE, wrote |-> FALSE,
    handed |-> FALSE ]

\* the request req answered with status code and payload
Respond(req, code, payload) ==
  [req EXCEPT !.pc = "done", !.resp = code, !.out = payload]

\* a fresh request in a slot
Fresh(kind, tok, args) ==
  [Idle EXCEPT !.kind = kind, !.tok = tok, !.args = args]

\* no response was sent by the last step
NoResponse == [Idle EXCEPT !.pc = "none"]

\* the expiresIn of a token has passed: jwt.verify rejects it from now on
Expire(tok) ==
  /\ tok \in tokens /\ ~tok.expired
  /\ tokens' = (tokens \ {tok}) \cup {[tok EXCEPT !.expired = TRUE]}
  /\ response' = NoResponse
  /\ UNCHANGED <<candidates, questions, reqs, resultMails, verdictWrites, examsServed>>
  /\ UNCHANGED <<enrollmentUsers, quizzerUsers, programmes>>

\* `reqs` is the bag of the requests in flight; `response` holds the
\* response sent by the last step only; `examsServed` records the candidates
\* an exam was returned for (res.json of GET /api/test/setup).
\* the candidates served once req has run
ServedAfter(req) ==
  IF req.kind = "setup" /\ req.pc = "done" /\ req.resp = 200
    THEN examsServed \cup {req.tok.id}
    ELSE examsServed

\* A request arrives and runs to its first await, which leaves it as req.
Arrive(req) ==
  /\ BagCardinality(reqs) < MaxReqs
  /\ reqs' = IF req.pc = "done" THEN reqs ELSE reqs (+) SetToBag({req})
  /\ response' = IF req.pc = "done" THEN req ELSE NoResponse
  /\ examsServed' = ServedAfter(req)

\* the same for a handler that uses neither user collection nor the programmes
Start(req) ==
  /\ Arrive(req)
  /\ UNCHANGED <<enrollmentUsers, quizzerUsers, programmes>>

\* the same for a request of the enrollment application
AdminKinds == {"onboard", "resend"}

StartAdmin(req) ==
  /\ Cardinality({x \in BagToSet(reqs) : x.kind \in AdminKinds}) < MaxAdminReqs
  /\ Start(req)

\* The request q in flight runs to its next await, which leaves it as req.
Resume(q, req) ==
  /\ reqs' = IF req.pc = "done" THEN reqs (-) SetToBag({q})
             ELSE (reqs (-) SetToBag({q})) (+) SetToBag({req})
  /\ response' = IF req.pc = "done" THEN req ELSE NoResponse
  /\ examsServed' = ServedAfter(req)

\* the same for a handler that uses neither user collection nor the programmes
Continue(q, req) ==
  /\ Resume(q, req)
  /\ UNCHANGED <<enrollmentUsers, quizzerUsers, programmes>>

Closed(doc) == Truthy(doc.result)

(***************************************************************************)
(* POST /api/test/auth/login                                               *)
(***************************************************************************)
\* the question bank a candidate is examined on
QuestionBankNameOf(doc) ==
  Trim(TemplateText(doc.program) \o <<" ">> \o TemplateText(doc.project))

\* the attempt check without the test of result
AlreadyAttemptedByStatus(doc) == doc.status = <<"Pass">> \/ doc.status = <<"Fail">>

\* "Check if test was already attempted"
AlreadyAttempted(doc) ==
  Truthy(doc.result) \/ doc.status = <<"Pass">> \/ doc.status = <<"Fail">>

\* request validation and Candidate.findOne({ username })
LoginFind(username, password) ==
  /\ LET req  == Fresh("login", NoToken, <<username, password>>)
         cand == FindOneBy("username", ToLowerCase(username))
     IN Start(
          IF ~Truthy(username) \/ ~Truthy(password) THEN Respond(req, 400, <<>>)
          ELSE IF cand = NoDoc THEN Respond(req, 401, <<>>)
          ELSE [req EXCEPT !.pc = "compare", !.loaded = cand, !.doc = cand,
                           !.sawClosed = Closed(cand)])
  /\ UNCHANGED <<candidates, questions, tokens, resultMails, verdictWrites>>

\* the login handler testing the attempt before the password
LoginCompareAttemptFirst(q) ==
  /\ q.kind = "login" /\ q.pc = "compare"
  /\ LET req     == q
         cand    == req.doc
         isMatch == req.args[2] = cand.password
         token   == TestTakerToken(cand, QuestionBankNameOf(cand))
     IN IF AlreadyAttempted(cand)
          THEN /\ Continue(q, Respond(req, 403, <<>>))
               /\ UNCHANGED tokens
        ELSE IF ~isMatch
          THEN /\ Continue(q, Respond(req, 401, <<>>))
               /\ UNCHANGED tokens
        ELSE /\ Continue(q, Respond(req, 200, <<token>>))
             /\ tokens' = tokens \cup {token}
  /\ UNCHANGED <<candidates, questions, resultMails, verdictWrites>>

\* the login handler recording the login in the candidate
LoginCompareMarking(q) ==
  /\ q.kind = "login" /\ q.pc = "compare"
  /\ LET req     == q
         cand    == req.doc
         isMatch == req.args[2] = cand.password
         token   == TestTakerToken(cand, QuestionBankNameOf(cand))
     IN IF ~isMatch
          THEN /\ Continue(q, Respond(req, 401, <<>>))
               /\ UNCHANGED <<tokens, candidates>>
        ELSE IF AlreadyAttempted(cand)
          THEN /\ Continue(q, Respond(req, 403, <<>>))
               /\ UNCHANGED <<tokens, candidates>>
        ELSE /\ Continue(q, Respond(req, 200, <<token>>))
             /\ tokens' = tokens \cup {token}
             /\ candidates' = [candidates EXCEPT ![cand.id].status = <<"Attempting">>]
  /\ UNCHANGED <<questions, resultMails, verdictWrites>>

\* bcrypt.compare has answered: the attempt check and jwt.sign
LoginCompare(q) ==
  /\ q.kind = "login" /\ q.pc = "compare"
  /\ LET req     == q
         cand    == req.doc
         isMatch == req.args[2] = cand.password
         token   == TestTakerToken(cand, QuestionBankNameOf(cand))
     IN IF ~isMatch
          THEN /\ Continue(q, Respond(req, 401, <<>>))
               /\ UNCHANGED tokens
        ELSE IF AlreadyAttempted(cand)
          THEN /\ Continue(q, Respond(req, 403, <<>>))
               /\ UNCHANGED tokens
        ELSE /\ Continue(q, Respond(req, 200, <<token>>))
             /\ tokens' = tokens \cup {token}
  /\ UNCHANGED <<candidates, questions, resultMails, verdictWrites>>

(***************************************************************************)
(* GET /api/test/setup: the exam assembler                                 *)
(***************************************************************************)
\* an exchange that copies one way only
SwapCopying(arr, i, j) == [arr EXCEPT ![i] = arr[j]]

\* [array[i], array[j]] = [array[j], array[i]]
Swap(arr, i, j) == [arr EXCEPT ![i] = arr[j], ![j] = arr[i]]

\* the draws of Math.floor(Math.random() * i): position i is never kept
RandomDrawsBelow(n) == {rnd \in [2..n -> 1..n] : \A i \in 2..n : rnd[i] < i}

\* the values Math.floor(Math.random() * (i + 1)) can take for each i of
\* the loop over an array of length n (positions counted from 1)
RandomDraws(n) == {rnd \in [2..n -> 1..n] : \A i \in 2..n : rnd[i] <= i}

RECURSIVE ShuffleFrom(_, _, _)
ShuffleFrom(arr, i, rnd) ==
  IF i < 2 THEN arr ELSE ShuffleFrom(Swap(arr, i, rnd[i]), i - 1, rnd)

\* shuffleArray with the random draws rnd
shuffleArray(arr, rnd) == ShuffleFrom(arr, Len(arr), rnd)

Min3(a, b, c) ==
  LET ab == IF a < b THEN a ELSE b IN IF ab < c THEN ab ELSE c

OfType(all, type) == SelectSeq(all, LAMBDA q : q.type = type)

\* the plain object sent for a question (options and answer text left out)
Cleaned(q) ==
  [id |-> q.qid, type |-> q.type, time |-> IF q.type = <<"hard">> THEN 2 ELSE 1]

\* the packing loop pushing only two questions of each triplet
RECURSIVE TripletsOfTwo(_, _, _, _, _)
TripletsOfTwo(easy, moderate, hard, rt, i) ==
  IF i > Min3(Len(easy), Len(moderate), Len(hard)) THEN <<>>
  ELSE SubSeq(shuffleArray(<<easy[i], moderate[i], hard[i]>>, rt[i]), 1, 2)
         \o TripletsOfTwo(easy, moderate, hard, rt, i + 1)

RECURSIVE Triplets(_, _, _, _, _)
Triplets(easy, moderate, hard, rt, i) ==
  IF i > Min3(Len(easy), Len(moderate), Len(hard)) THEN <<>>
  ELSE shuffleArray(<<easy[i], moderate[i], hard[i]>>, rt[i])
         \o Triplets(easy, moderate, hard, rt, i + 1)

\* the question list built from the bank's questions with the given draws
Assemble(all, re, rm, rh, rt) ==
  LET easyQuestions     == shuffleArray(OfType(all, <<"easy">>), re)
      moderateQuestions == shuffleArray(OfType(all, <<"moderate">>), rm)
      hardQuestions     == shuffleArray(OfType(all, <<"hard">>), rh)
      finalQuestions    == Triplets(easyQuestions, moderateQuestions, hardQuestions, rt, 1)
  IN [i \in 1..Len(finalQuestions) |-> Cleaned(finalQuestions[i])]

\* the query without its filter
FindAllQuestions(bank) == questions

\* QuestionBankItem.find({ questionBankName })
FindQuestions(bank) == SelectSeq(questions, LAMBDA q : q.bank = bank)

\* the guard testing the status label instead of result
AlreadySubmittedByStatus(candidate) ==
  candidate.status = <<"Pass">> \/ candidate.status = <<"Fail">>

\* the guard on result left out
NeverSubmitted(candidate) == FALSE

\* if (candidate.result): the attempt is closed
AlreadySubmitted(candidate) == Truthy(candidate.result)

\* the assembler refusing a token while a request with it is being served
SetupFindCandidateOnce(tok) ==
  /\ LET req  == Fresh("setup", tok, <<>>)
         auth == Authorize(tok, {}, "test-taker")
         cand == FindById(tok.id)
     IN Start(
          IF auth # 0 THEN Respond(req, auth, <<>>)
          ELSE IF cand = NoDoc THEN Respond(req, 500, <<>>)
          ELSE IF AlreadySubmitted(cand) THEN Respond([req EXCEPT !.sawClosed = Closed(cand)], 403, <<>>)
          ELSE IF \E q \in BagToSet(reqs) : q.kind = "setup" /\ q.tok = tok THEN Respond(req, 403, <<>>)
          ELSE [req EXCEPT !.pc = "questions", !.loaded = cand, !.doc = cand])
  /\ UNCHANGED <<candidates, questions, tokens, resultMails, verdictWrites>>

\* middleware and Candidate.findById: "Re-check if test was attempted"
SetupFindCandidate(tok) ==
  /\ LET req  == Fresh("setup", tok, <<>>)
         auth == Authorize(tok, {}, "test-taker")
         cand == FindById(tok.id)
     IN Start(
          IF auth # 0 THEN Respond(req, auth, <<>>)
          ELSE IF cand = NoDoc THEN Respond(req, 500, <<>>)
          ELSE IF AlreadySubmitted(cand) THEN Respond([req EXCEPT !.sawClosed = Closed(cand)], 403, <<>>)
          ELSE [req EXCEPT !.pc = "questions", !.loaded = cand, !.doc = cand])
  /\ UNCHANGED <<candidates, questions, tokens, resultMails, verdictWrites>>

\* the 404 test left out
BankNeverNotFound(allQuestions) == FALSE

\* the 404 test applied to the assembled exam instead of the bank
BankNotFoundWhenNoTriplet(allQuestions) ==
  \E t \in {<<"easy">>, <<"moderate">>, <<"hard">>} : Len(OfType(allQuestions, t)) = 0

\* if (allQuestions.length === 0): the bank is unknown or empty
BankNotFound(allQuestions) == Len(allQuestions) = 0

\* the assembler marking the candidate as started when it returns an exam
SetupFindQuestionsMarking(q) ==
  /\ q.kind = "setup" /\ q.pc = "questions"
  /\ LET req          == q
         allQuestions == FindQuestions(req.tok.bank)
         minCount     == Min3(Len(OfType(allQuestions, <<"easy">>)),
                              Len(OfType(allQuestions, <<"moderate">>)),
                              Len(OfType(allQuestions, <<"hard">>)))
     IN IF BankNotFound(allQuestions)
          THEN /\ Continue(q, Respond(req, 404, <<>>))
               /\ UNCHANGED candidates
          ELSE /\ \E re \in RandomDraws(Len(OfType(allQuestions, <<"easy">>))),
                     rm \in RandomDraws(Len(OfType(allQuestions, <<"moderate">>))),
                     rh \in RandomDraws(Len(OfType(allQuestions, <<"hard">>))),
                     rt \in [1..minCount -> RandomDraws(3)] :
                    Continue(q, Respond(req, 200, Assemble(allQuestions, re, rm, rh, rt)))
               /\ candidates' = [candidates EXCEPT ![req.doc.id].status = <<"Started">>]
  /\ UNCHANGED <<questions, tokens, resultMails, verdictWrites>>

\* QuestionBankItem.find has answered: partition, shuffle, pack, respond
SetupFindQuestions(q) ==
  /\ q.kind = "setup" /\ q.pc = "questions"
  /\ LET req          == q
         allQuestions == FindQuestions(req.tok.bank)
         minCount     == Min3(Len(OfType(allQuestions, <<"easy">>)),
                              Len(OfType(allQuestions, <<"moderate">>)),
                              Len(OfType(allQuestions, <<"hard">>)))
     IN IF BankNotFound(allQuestions)
          THEN Continue(q, Respond(req, 404, <<>>))
          ELSE \E re \in RandomDraws(Len(OfType(allQuestions, <<"easy">>))),
                  rm \in RandomDraws(Len(OfType(allQuestions, <<"moderate">>))),
                  rh \in RandomDraws(Len(OfType(allQuestions, <<"hard">>))),
                  rt \in [1..minCount -> RandomDraws(3)] :
                 Continue(q,
                            Respond(req, 200, Assemble(allQuestions, re, rm, rh, rt)))
  /\ UNCHANGED <<candidates, questions, tokens, resultMails, verdictWrites>>

(***************************************************************************)
(* POST /api/test/submit                                                   *)
(***************************************************************************)
\* the attempted-count floor and the pass mark (times Scale)
MinAttempted == 15

PassMark == 7500

\* the pass mark as a strict bound
VerdictAbovePassMark(attemptedQuestions, numericPercentage) ==
  IF attemptedQuestions < MinAttempted THEN <<"Not Qualified">>
  ELSE IF numericPercentage > PassMark THEN <<"Pass">>
  ELSE <<"Fail">>

\* "Calculate final status"
Verdict(attemptedQuestions, numericPercentage) ==
  IF attemptedQuestions < MinAttempted THEN <<"Not Qualified">>
  ELSE IF numericPercentage >= PassMark THEN <<"Pass">>
  ELSE <<"Fail">>

\* (numericPercentage * 100).toFixed(1) + "%": the value times 100, handed
\* to ToFixed1 in hundredths
ScoreText(numericPercentage) == ToFixed1((numericPercentage * 100 * 100) \div Scale) \o <<"%">>

\* scoreString.split('/')[1] throws a TypeError when scoreString is undefined
\* or holds no '/'
SplitThrows(scoreString) == scoreString = NULL \/ Len(Split(scoreString, "/")) < 2

\* the submit handler taking a scoreString without a count as 0 attempted
SubmitFindLenient(tok, percentage, scoreString) ==
  /\ LET req  == Fresh("submit", tok, <<percentage, scoreString>>)
         auth == Authorize(tok, {}, "test-taker")
         cand == FindById(tok.id)
         numericPercentage  == NumOr(ParseFloat(percentage), 0)
         attemptedQuestions == IF SplitThrows(scoreString) THEN 0
                               ELSE NumOr(ParseInt(Trim(Split(scoreString, "/")[2])), 0)
     IN Start(
          IF auth # 0 THEN Respond(req, auth, <<>>)
          ELSE IF cand = NoDoc THEN Respond(req, 404, <<>>)
          ELSE IF AlreadySubmitted(cand) THEN Respond([req EXCEPT !.sawClosed = Closed(cand)], 403, <<>>)
          ELSE [req EXCEPT !.pc = "save", !.loaded = cand,
                  !.doc = [cand EXCEPT !.score  = ScoreText(numericPercentage),
                                       !.result = scoreString,
                                       !.status = Verdict(attemptedQuestions, numericPercentage)]])
  /\ UNCHANGED <<candidates, questions, tokens, resultMails, verdictWrites>>

\* the submit handler leaving result as it was
SubmitFindWithoutResult(tok, percentage, scoreString) ==
  /\ LET req  == Fresh("submit", tok, <<percentage, scoreString>>)
         auth == Authorize(tok, {}, "test-taker")
         cand == FindById(tok.id)
         numericPercentage  == NumOr(ParseFloat(percentage), 0)
         attemptedQuestions == NumOr(ParseInt(Trim(Split(scoreString, "/")[2])), 0)
     IN Start(
          IF auth # 0 THEN Respond(req, auth, <<>>)
          ELSE IF cand = NoDoc THEN Respond(req, 404, <<>>)
          ELSE IF AlreadySubmitted(cand) THEN Respond([req EXCEPT !.sawClosed = Closed(cand)], 403, <<>>)
          ELSE IF SplitThrows(scoreString) THEN Respond(req, 500, <<>>)
          ELSE [req EXCEPT !.pc = "save", !.loaded = cand,
                  !.doc = [cand EXCEPT !.score  = ScoreText(numericPercentage),
                                       !.status = Verdict(attemptedQuestions, numericPercentage)]])
  /\ UNCHANGED <<candidates, questions, tokens, resultMails, verdictWrites>>

\* middleware, Candidate.findById, the two guards, the verdict and the
\* assignments to the loaded document
SubmitFind(tok, percentage, scoreString) ==
  /\ LET req  == Fresh("submit", tok, <<percentage, scoreString>>)
         auth == Authorize(tok, {}, "test-taker")
         cand == FindById(tok.id)
         numericPercentage  == NumOr(ParseFloat(percentage), 0)
         attemptedQuestions == NumOr(ParseInt(Trim(Split(scoreString, "/")[2])), 0)
     IN Start(
          IF auth # 0 THEN Respond(req, auth, <<>>)
          ELSE IF cand = NoDoc THEN Respond(req, 404, <<>>)
          ELSE IF AlreadySubmitted(cand) THEN Respond([req EXCEPT !.sawClosed = Closed(cand)], 403, <<>>)
          ELSE IF SplitThrows(scoreString) THEN Respond(req, 500, <<>>)
          ELSE [req EXCEPT !.pc = "save", !.loaded = cand,
                  !.doc = [cand EXCEPT !.score  = ScoreText(numericPercentage),
                                       !.result = scoreString,
                                       !.status = Verdict(attemptedQuestions, numericPercentage)]])
  /\ UNCHANGED <<candidates, questions, tokens, resultMails, verdictWrites>>

\* candidate.save() is applied; the mail is sent only to a recorded recruiter
SubmitSave(q) ==
  /\ q.kind = "submit" /\ q.pc = "save"
  /\ LET req == q
         id  == req.doc.id
     IN /\ candidates' = [candidates EXCEPT ![id] = SaveDoc(candidates[id], req.loaded, req.doc)]
        /\ verdictWrites' = [verdictWrites EXCEPT ![id] = Append(@, "submit")]
        /\ Continue(q,
             IF Truthy(req.doc.taEmail)
               THEN [req EXCEPT !.pc = "mail", !.wrote = TRUE, !.handed = TRUE]
               ELSE Respond([req EXCEPT !.wrote = TRUE], 200, <<>>))
  /\ UNCHANGED <<questions, tokens, resultMails>>

\* a failed send undoing the save
SubmitMailRollingBack(q, delivered) ==
  /\ q.kind = "submit" /\ q.pc = "mail"
  /\ LET req == q
         id  == req.doc.id
     IN IF delivered
          THEN /\ resultMails' = [resultMails EXCEPT ![id] = @ + 1]
               /\ candidates' = candidates
               /\ Continue(q, Respond(req, 200, <<>>))
          ELSE /\ UNCHANGED resultMails
               /\ candidates' = [candidates EXCEPT ![id] = req.loaded]
               /\ Continue(q, Respond(req, 500, <<>>))
  /\ UNCHANGED <<questions, tokens, verdictWrites>>

\* a failed send swallowed without a response: the request stays open
SubmitMailUnanswered(q, delivered) ==
  /\ q.kind = "submit" /\ q.pc = "mail"
  /\ LET req == q
         id  == req.doc.id
     IN IF delivered
          THEN /\ resultMails' = [resultMails EXCEPT ![id] = @ + 1]
               /\ Continue(q, Respond(req, 200, <<>>))
          ELSE /\ UNCHANGED resultMails
               /\ Continue(q, [req EXCEPT !.pc = "open"])
  /\ UNCHANGED <<candidates, questions, tokens, verdictWrites>>

\* mailTransport.sendMail has answered or failed
SubmitMail(q, delivered) ==
  /\ q.kind = "submit" /\ q.pc = "mail"
  /\ LET req == q
         id  == req.doc.id
     IN IF delivered
          THEN /\ resultMails' = [resultMails EXCEPT ![id] = @ + 1]
               /\ Continue(q, Respond(req, 200, <<>>))
          ELSE /\ UNCHANGED resultMails
               /\ Continue(q, Respond(req, 500, <<>>))
  /\ UNCHANGED <<candidates, questions, tokens, verdictWrites>>

(***************************************************************************)
(* POST /api/test/fail                                                     *)
(***************************************************************************)
\* the fail handler storing the reason in status only
FailFindStatusOnly(tok, failureReason) ==
  /\ LET req  == Fresh("fail", tok, <<failureReason>>)
         auth == Authorize(tok, {}, "test-taker")
         cand == FindById(tok.id)
     IN Start(
          IF auth # 0 THEN Respond(req, auth, <<>>)
          ELSE IF cand = NoDoc THEN Respond(req, 404, <<>>)
          ELSE IF AlreadySubmitted(cand) THEN Respond([req EXCEPT !.sawClosed = Closed(cand)], 403, <<>>)
          ELSE [req EXCEPT !.pc = "save", !.loaded = cand,
                  !.doc = [cand EXCEPT !.score  = <<"0", ".", "0", "%">>,
                                       !.result = <<"0", " ", "/", " ", "0">>,
                                       !.status = failureReason]])
  /\ UNCHANGED <<candidates, questions, tokens, resultMails, verdictWrites>>

\* middleware, Candidate.findById, the two guards and the assignments
FailFind(tok, failureReason) ==
  /\ LET req  == Fresh("fail", tok, <<failureReason>>)
         auth == Authorize(tok, {}, "test-taker")
         cand == FindById(tok.id)
     IN Start(
          IF auth # 0 THEN Respond(req, auth, <<>>)
          ELSE IF cand = NoDoc THEN Respond(req, 404, <<>>)
          ELSE IF AlreadySubmitted(cand) THEN Respond([req EXCEPT !.sawClosed = Closed(cand)], 403, <<>>)
          ELSE [req EXCEPT !.pc = "save", !.loaded = cand,
                  !.doc = [cand EXCEPT !.score     = <<"0", ".", "0", "%">>,
                                       !.result    = <<"0", " ", "/", " ", "0">>,
                                       !.status    = failureReason,
                                       !.videoLink = failureReason]])
  /\ UNCHANGED <<candidates, questions, tokens, resultMails, verdictWrites>>

\* candidate.save() is applied; then toLocaleString is called with the time
\* zone 'Asia/KKolkata', which throws a RangeError, so the handler ends in
\* its catch block before the mail is sent
FailSave(q) ==
  /\ q.kind = "fail" /\ q.pc = "save"
  /\ LET req == q
         id  == req.doc.id
     IN /\ candidates' = [candidates EXCEPT ![id] = SaveDoc(candidates[id], req.loaded, req.doc)]
        /\ verdictWrites' = [verdictWrites EXCEPT ![id] = Append(@, "fail")]
        /\ Continue(q, Respond([req EXCEPT !.wrote = TRUE], 500, <<>>))
  /\ UNCHANGED <<questions, tokens, resultMails>>

(***************************************************************************)
(* Enrollment: login, candidate onboarding, resend-credentials             *)
(***************************************************************************)
\* the EnrollmentUser collection as seeded
EnrollmentUsers ==
  { [email |-> <<"t", "a">>, password |-> <<"pw-ta">>, role |-> "TA"],
    [email |-> <<"m", "g">>, password |-> <<"pw-mg">>, role |-> "Manager"] }

\* POST /api/enrollment/auth/login
EnrollmentLogin(email, password) ==
  /\ LET req   == Fresh("enrollment-login", NoToken, <<email, password>>)
         users == {u \in enrollmentUsers : u.email = ToLowerCase(email)}
     IN IF ~Truthy(email) \/ ~Truthy(password)
          THEN /\ Start( Respond(req, 400, <<>>))
               /\ UNCHANGED tokens
        ELSE IF users = {} \/ \A u \in users : u.password # password
          THEN /\ Start( Respond(req, 401, <<>>))
               /\ UNCHANGED tokens
        ELSE LET user  == CHOOSE u \in users : u.password = password
                 token == AdminToken("enrollment", user.role, user.email)
             IN /\ Start( Respond(req, 200, <<token>>))
                /\ tokens' = tokens \cup {token}
  /\ UNCHANGED <<candidates, questions, resultMails, verdictWrites>>

\* POST /api/enrollment/candidates/onboard: middleware and Candidate.findOne
OnboardFind(tok, email, program, project) ==
  /\ LET req  == Fresh("onboard", tok, <<email, program, project>>)
         auth == Authorize(tok, {"TA", "Manager", "Owner"}, "enrollment")
         cand == FindOneBy("email", ToLowerCase(email))
     IN StartAdmin(
          IF auth # 0 THEN Respond(req, auth, <<>>)
          ELSE IF email = NULL THEN Respond(req, 500, <<>>)
          ELSE IF cand # NoDoc THEN Respond(req, 409, <<>>)
          ELSE [req EXCEPT !.pc = "save"])
  /\ UNCHANGED <<candidates, questions, tokens, resultMails, verdictWrites>>

\* a document violates a unique index of the Candidate collection
DuplicateKey(doc) ==
  \E i \in 1..Len(candidates) :
     candidates[i].email = doc.email \/ candidates[i].username = doc.username

\* generateRandomPassword, bcrypt.hash, new Candidate(...) and candidate.save():
\* schema validation and the unique indexes decide whether it is stored
OnboardSave(q, password) ==
  /\ q.kind = "onboard" /\ q.pc = "save"
  /\ LET req   == q
         email == req.args[1]
         doc   == NewCandidate(Len(candidates) + 1, Trim(ToLowerCase(email)),
                               ToLowerCase(email), password, req.tok.email,
                               req.args[2], req.args[3])
     IN IF ~Truthy(doc.email) \/ ~Truthy(doc.program) \/ ~Truthy(doc.taEmail)
           \/ DuplicateKey(doc)
          THEN /\ Continue(q, Respond(req, 500, <<>>))
               /\ UNCHANGED <<candidates, resultMails, verdictWrites>>
          ELSE /\ candidates' = Append(candidates, doc)
               /\ resultMails' = Append(resultMails, 0)
               /\ verdictWrites' = Append(verdictWrites, <<>>)
               /\ Continue(q, [req EXCEPT !.pc = "mail", !.doc = doc])
  /\ UNCHANGED <<questions, tokens>>

\* mailTransport.sendMail with the credentials has answered or failed
OnboardMail(q, delivered) ==
  /\ q.kind = "onboard" /\ q.pc = "mail"
  /\ Continue(q, Respond(q, IF delivered THEN 201 ELSE 500, <<>>))
  /\ UNCHANGED <<candidates, questions, tokens, resultMails, verdictWrites>>

\* POST /api/candidates/resend-credentials: token check, scope check, findOne
ResendFind(tok, email) ==
  /\ LET req  == Fresh("resend", tok, <<email>>)
         cand == FindOneBy("email", ToLowerCase(email))
     IN StartAdmin(
          IF tok = NoToken THEN Respond(req, 401, <<>>)
          ELSE IF tok.expired THEN Respond(req, 403, <<>>)
          ELSE IF tok.scope # "enrollment" /\ tok.scope # "quizzer" THEN Respond(req, 403, <<>>)
          ELSE IF email = NULL THEN Respond(req, 500, <<>>)
          ELSE IF cand = NoDoc THEN Respond(req, 404, <<>>)
          ELSE [req EXCEPT !.pc = "save", !.loaded = cand, !.doc = cand])
  /\ UNCHANGED <<candidates, questions, tokens, resultMails, verdictWrites>>

\* resend-credentials writing back the whole document it loaded
ResendSaveWhole(q, newPassword) ==
  /\ q.kind = "resend" /\ q.pc = "save"
  /\ LET req == q
         doc == [req.doc EXCEPT !.password = newPassword]
     IN /\ candidates' = [candidates EXCEPT ![doc.id] = doc]
        /\ Continue(q, [req EXCEPT !.pc = "mail", !.doc = doc, !.wrote = TRUE])
  /\ UNCHANGED <<questions, tokens, resultMails, verdictWrites>>

\* generateRandomPassword, bcrypt.hash and candidate.save()
ResendSave(q, newPassword) ==
  /\ q.kind = "resend" /\ q.pc = "save"
  /\ LET req == q
         doc == [req.doc EXCEPT !.password = newPassword]
     IN /\ candidates' = [candidates EXCEPT ![doc.id] = SaveDoc(candidates[doc.id], req.loaded, doc)]
        /\ Continue(q, [req EXCEPT !.pc = "mail", !.doc = doc, !.wrote = TRUE])
  /\ UNCHANGED <<questions, tokens, resultMails, verdictWrites>>

\* mailTransport.sendMail with the new credentials has answered or failed
ResendMail(q, delivered) ==
  /\ q.kind = "resend" /\ q.pc = "mail"
  /\ Continue(q, Respond(q, IF delivered THEN 200 ELSE 500, <<>>))
  /\ UNCHANGED <<candidates, questions, tokens, resultMails, verdictWrites>>

(***************************************************************************)
(* Question bank contents                                                  *)
(***************************************************************************)
UpperSym(ch) ==
  CASE ch = "a" -> "A"
    [] ch = "b" -> "B"
    [] ch = "g" -> "G"
    [] ch = "u" -> "U"
    [] OTHER -> ch

ToUpperCase(s) == [i \in 1..Len(s) |-> UpperSym(s[i])]

\* String(n).padStart(3, '0')
PadStart3(s) ==
  IF Len(s) >= 3 THEN s
  ELSE [i \in 1..(3 - Len(s)) |-> "0"] \o s

\* the id numbered with the count itself
NewQuestionIdFromCount(questionBankName, count) ==
  LET nameParts    == Split(questionBankName, " ")
      firstInitial == IF nameParts[1] # <<>> THEN <<nameParts[1][1]>> ELSE <<>>
      last         == nameParts[Len(nameParts)]
      lastInitial  == IF Len(nameParts) > 1 /\ last # <<>> THEN <<last[1]>> ELSE <<>>
      prefix       == ToUpperCase(firstInitial \o lastInitial)
  IN prefix \o PadStart3(NatToStr(count))

\* the id given to a question added to a bank that holds count questions
NewQuestionId(questionBankName, count) ==
  LET nameParts    == Split(questionBankName, " ")
      firstInitial == IF nameParts[1] # <<>> THEN <<nameParts[1][1]>> ELSE <<>>
      last         == nameParts[Len(nameParts)]
      lastInitial  == IF Len(nameParts) > 1 /\ last # <<>> THEN <<last[1]>> ELSE <<>>
      prefix       == ToUpperCase(firstInitial \o lastInitial)
  IN prefix \o PadStart3(NatToStr(count + 1))

\* questionBankItemSchema: the fields the assembler reads
NewQuestion(questionBankName, count, type) ==
  [bank |-> questionBankName, qid |-> NewQuestionId(questionBankName, count), type |-> type]

\* the bank obtained by adding questions of the given tiers one after another
RECURSIVE BankOf(_, _)
BankOf(questionBankName, types) ==
  IF types = <<>> THEN <<>>
  ELSE LET front == SubSeq(types, 1, Len(types) - 1)
       IN Append(BankOf(questionBankName, front),
                 NewQuestion(questionBankName, Len(front), types[Len(types)]))

Repeat(x, n) == [i \in 1..n |-> x]

\* the tiers of a bank with e easy, m moderate and h hard questions, o
\* questions of an unknown tier and u questions without a tier
Tiers(e, m, h, o, u) ==
  Repeat(<<"easy">>, e) \o Repeat(<<"moderate">>, m) \o Repeat(<<"hard">>, h)
    \o Repeat(<<"tricky">>, o) \o Repeat(<<>>, u)

\* the two banks of the model
GoBe == <<"G", "o", " ", "B", "e">>

GoUndefined == <<"G", "o", " ">> \o TemplateText(NULL)

(***************************************************************************)
(* Enrollment: user search                                                 *)
(***************************************************************************)
\* GET /api/enrollment/users/search: Owners and Managers only; reads the
\* EnrollmentUser collection and writes nothing
UsersSearch(tok) ==
  /\ LET req  == Fresh("users-search", tok, <<>>)
         auth == Authorize(tok, {"Owner", "Manager"}, "enrollment")
     IN Start(
          IF auth # 0 THEN Respond(req, auth, <<>>)
          ELSE Respond(req, 200, <<>>))
  /\ UNCHANGED <<candidates, questions, tokens, resultMails, verdictWrites>>

(***************************************************************************)
(* Quizzer: login and the question bank routes                             *)
(***************************************************************************)
\* the QuizzerUser collection as seeded
QuizzerUsers ==
  { [email |-> <<"e", "d">>, username |-> <<"e", "d">>, password |-> <<"pw-ed">>, role |-> "Editor"] }

\* POST /api/quizzer/auth/login
QuizzerLogin(username, password) ==
  /\ LET req   == Fresh("quizzer-login", NoToken, <<username, password>>)
         users == {u \in quizzerUsers : u.email = ToLowerCase(username)
                                          \/ u.username = ToLowerCase(username)}
     IN IF ~Truthy(username) \/ ~Truthy(password)
          THEN /\ Start(Respond(req, 400, <<>>))
               /\ UNCHANGED tokens
        ELSE IF users = {} \/ \A u \in users : u.password # password
          THEN /\ Start(Respond(req, 401, <<>>))
               /\ UNCHANGED tokens
        ELSE LET user  == CHOOSE u \in users : u.password = password
                 token == AdminToken("quizzer", user.role, user.email)
             IN /\ Start(Respond(req, 200, <<token>>))
                /\ tokens' = tokens \cup {token}
  /\ UNCHANGED <<candidates, questions, resultMails, verdictWrites>>

QuizzerRoles == {"Owner", "Manager", "Editor"}

\* the two user collections hold their seed and no programme is stored
SeededUsers ==
  /\ enrollmentUsers = EnrollmentUsers
  /\ quizzerUsers = QuizzerUsers
  /\ programmes = {}

\* QuestionBankItem.countDocuments({ questionBankName })
CountDocuments(questionBankName) ==
  Cardinality({i \in 1..Len(questions) : questions[i].bank = questionBankName})

\* (qData.type || '').trim().toLowerCase()
QuestionTypeOf(type) == ToLowerCase(Trim(IF Truthy(type) THEN type ELSE <<>>))

\* the add requests in flight
AddsInFlight == Cardinality({x \in BagToSet(reqs) : x.kind = "add"})

\* POST /api/quizzer/questions/:questionBankName: middleware, the prefix,
\* countDocuments and the new id; the request waits for its save with
\* args = <<questionBankName, questionType, newId>>
AddCount(tok, questionBankName, type) ==
  /\ Len(questions) + AddsInFlight < MaxStored
  /\ LET req   == Fresh("add", tok, <<questionBankName, type>>)
         auth  == Authorize(tok, QuizzerRoles, "quizzer")
         count == CountDocuments(questionBankName)
         newId == NewQuestionId(questionBankName, count)
     IN Start(
          IF auth # 0 THEN Respond(req, auth, <<>>)
          ELSE [req EXCEPT !.pc = "save",
                           !.args = <<questionBankName, QuestionTypeOf(type), newId>>])
  /\ UNCHANGED <<candidates, questions, tokens, resultMails, verdictWrites>>

\* a store without the unique index on questionId
NoDuplicateQuestionId(questionId) == FALSE

\* the unique index on questionId rejects a second document with the id
DuplicateQuestionId(questionId) ==
  \E i \in 1..Len(questions) : questions[i].qid = questionId

\* newQuestion.save(): the insert, or the duplicate-key error caught as 500
AddSave(q) ==
  /\ q.kind = "add" /\ q.pc = "save"
  /\ LET newQuestion == [bank |-> q.args[1], qid |-> q.args[3], type |-> q.args[2]]
     IN IF DuplicateQuestionId(newQuestion.qid)
          THEN /\ UNCHANGED questions
               /\ Continue(q, Respond(q, 500, <<>>))
          ELSE /\ questions' = Append(questions, newQuestion)
               /\ Continue(q, Respond([q EXCEPT !.wrote = TRUE], 201, <<>>))
  /\ UNCHANGED <<candidates, tokens, resultMails, verdictWrites>>

\* a lookup falling back on the first stored question
FindQuestionIdOrFirst(questionId) ==
  IF \E i \in 1..Len(questions) : questions[i].qid = questionId
    THEN CHOOSE i \in 1..Len(questions) :
           /\ questions[i].qid = questionId
           /\ \A k \in 1..(i - 1) : questions[k].qid # questionId
    ELSE IF Len(questions) > 0 THEN 1 ELSE 0

\* the position of the first stored question with the id, 0 when none has it
FindQuestionId(questionId) ==
  IF DuplicateQuestionId(questionId)
    THEN CHOOSE i \in 1..Len(questions) :
           /\ questions[i].qid = questionId
           /\ \A k \in 1..(i - 1) : questions[k].qid # questionId
    ELSE 0

\* an update that also files the question under the bank of the path
UpdateQuestionRebanking(tok, questionBankName, questionId, type) ==
  /\ LET req  == Fresh("put", tok, <<questionBankName, questionId, type>>)
         auth == Authorize(tok, QuizzerRoles, "quizzer")
         i    == FindQuestionId(questionId)
     IN IF auth # 0
          THEN /\ Start(Respond(req, auth, <<>>))
               /\ UNCHANGED questions
        ELSE IF i = 0
          THEN /\ Start(Respond(req, 404, <<>>))
               /\ UNCHANGED questions
        ELSE /\ Start(Respond([req EXCEPT !.wrote = TRUE], 200, <<>>))
             /\ questions' = [questions EXCEPT ![i].type = QuestionTypeOf(type),
                                               ![i].bank = questionBankName]
  /\ UNCHANGED <<candidates, tokens, resultMails, verdictWrites>>

\* PUT /api/quizzer/questions/:questionBankName/:questionId:
\* findOneAndUpdate({ questionId }) of the content fields
UpdateQuestion(tok, questionBankName, questionId, type) ==
  /\ LET req  == Fresh("put", tok, <<questionBankName, questionId, type>>)
         auth == Authorize(tok, QuizzerRoles, "quizzer")
         i    == FindQuestionId(questionId)
     IN IF auth # 0
          THEN /\ Start(Respond(req, auth, <<>>))
               /\ UNCHANGED questions
        ELSE IF i = 0
          THEN /\ Start(Respond(req, 404, <<>>))
               /\ UNCHANGED questions
        ELSE /\ Start(Respond([req EXCEPT !.wrote = TRUE], 200, <<>>))
             /\ questions' = [questions EXCEPT ![i].type = QuestionTypeOf(type)]
  /\ UNCHANGED <<candidates, tokens, resultMails, verdictWrites>>

RemoveAt(seq, i) == SubSeq(seq, 1, i - 1) \o SubSeq(seq, i + 1, Len(seq))

\* DELETE /api/quizzer/questions/:questionBankName/:questionId:
\* deleteOne({ questionId })
DeleteQuestion(tok, questionBankName, questionId) ==
  /\ LET req  == Fresh("delete", tok, <<questionBankName, questionId>>)
         auth == Authorize(tok, QuizzerRoles, "quizzer")
         i    == FindQuestionId(questionId)
     IN IF auth # 0
          THEN /\ Start(Respond(req, auth, <<>>))
               /\ UNCHANGED questions
        ELSE IF i = 0
          THEN /\ Start(Respond(req, 404, <<>>))
               /\ UNCHANGED questions
        ELSE /\ Start(Respond([req EXCEPT !.wrote = TRUE], 200, <<>>))
             /\ questions' = RemoveAt(questions, i)
  /\ UNCHANGED <<candidates, tokens, resultMails, verdictWrites>>

(***************************************************************************)
(* The exam lifecycle: all handlers, interleaved at their awaits           *)
(***************************************************************************)
Booleans == {TRUE, FALSE}

\* inputs of the lifecycle specification
Emails == {<<"A">>}

\* the passwords a login request tries
Passwords == {<<"p1">>, <<"p2">>}

\* the values generateRandomPassword returns
GeneratedPasswords == {<<"p1">>}

Projects == {<<"B", "e">>}

Percentages == {<<"0", ".", "8">>}

ScoreStrings == {<<"1", "2", " ", "/", " ", "1", "5">>, NULL}

Reasons == {<<"Tab switch">>}

Init ==
  /\ candidates = <<>>
  /\ questions = BankOf(GoBe, Tiers(1, 1, 1, 0, 0))
  /\ tokens = {}
  /\ reqs = EmptyBag
  /\ resultMails = <<>>
  /\ verdictWrites = <<>>
  /\ response = NoResponse
  /\ examsServed = {}
  /\ SeededUsers

\* requests presenting also tokens nobody issued, accepted unverified
PresentedUnverified ==
  tokens \cup {NoToken}
    \cup {TestTakerToken(candidates[i], QuestionBankNameOf(candidates[i])) :
            i \in 1..Len(candidates)}

\* a request presents a token issued earlier, or none
Presented == tokens \cup {NoToken}

InFlight == BagToSet(reqs)

Next ==
  \/ \E u \in Emails \cup {NULL}, p \in Passwords : LoginFind(u, p)
  \/ \E q \in InFlight : LoginCompare(q)
  \/ \E tok \in Presented : SetupFindCandidate(tok)
  \/ \E q \in InFlight : SetupFindQuestions(q)
  \/ \E tok \in Presented, pct \in Percentages, ss \in ScoreStrings : SubmitFind(tok, pct, ss)
  \/ \E q \in InFlight : SubmitSave(q)
  \/ \E q \in InFlight, delivered \in Booleans : SubmitMail(q, delivered)
  \/ \E tok \in Presented, reason \in Reasons : FailFind(tok, reason)
  \/ \E q \in InFlight : FailSave(q)
  \/ EnrollmentLogin(<<"T", "A">>, <<"pw-ta">>)
  \/ \E tok \in Presented, e \in Emails, pj \in Projects : OnboardFind(tok, e, <<"G", "o">>, pj)
  \/ \E q \in InFlight, p \in GeneratedPasswords : OnboardSave(q, p)
  \/ \E q \in InFlight, delivered \in Booleans : OnboardMail(q, delivered)
  \/ \E tok \in Presented, e \in Emails : ResendFind(tok, e)
  \/ \E q \in InFlight, p \in GeneratedPasswords : ResendSave(q, p)
  \/ \E q \in InFlight, delivered \in Booleans : ResendMail(q, delivered)

Spec == Init /\ [][Next]_vars

(***************************************************************************)
(* The exam assembler on every bank within the bounds: one open candidate  *)
(* holding a token, and setup requests                                     *)
(***************************************************************************)
\* the candidate of the assembler and scoring specifications, as onboarding
\* leaves it
Invitee ==
  NewCandidate(1, <<"a">>, <<"a">>, <<"p1">>, <<"t", "a">>, <<"G", "o">>, <<"B", "e">>)

\* k questions outside the three tiers: unknown tiers and missing tiers in turn
OtherTiers(k) == [i \in 1..k |-> IF i % 2 = 1 THEN <<"tricky">> ELSE <<>>]

\* the banks of the assembler specification; a question of another bank is
\* always stored next to them
ExamBanks ==
  { BankOf(GoUndefined, <<<<"hard">>>>)
      \o BankOf(GoBe, Tiers(e, m, h, 0, 0) \o OtherTiers(k)) :
    e \in 0..MaxPerTier, m \in 0..MaxPerTier, h \in 0..MaxPerTier, k \in 0..MaxOther }

InitExam ==
  /\ candidates = <<Invitee>>
  /\ questions \in ExamBanks
  /\ tokens = {TestTakerToken(Invitee, QuestionBankNameOf(Invitee))}
  /\ reqs = EmptyBag
  /\ resultMails = <<0>>
  /\ verdictWrites = << <<>> >>
  /\ response = NoResponse
  /\ examsServed = {}
  /\ SeededUsers

NextExam ==
  \/ \E tok \in Presented : SetupFindCandidate(tok)
  \/ \E q \in InFlight : SetupFindQuestions(q)

SpecExam == InitExam /\ [][NextExam]_vars

(***************************************************************************)
(* Scoring: submit requests with every input of the tables below, handled  *)
(* one at a time                                                           *)
(***************************************************************************)
\* percentage members of a request body and the fraction each one denotes
\* (times Scale); a missing member and non-numeric text denote no fraction
PercentageTable ==
  { [text |-> <<"0", ".", "8">>,                frac |-> 8000],
    [text |-> <<"0", ".", "7", "5">>,           frac |-> 7500],
    [text |-> <<"0", ".", "7", "4", "9", "9">>, frac |-> 7499],
    [text |-> <<"0", ".", "7", "4">>,           frac |-> 7400],
    [text |-> <<"0", ".", "9">>,                frac |-> 9000],
    [text |-> <<".", "5">>,                     frac |-> 5000],
    [text |-> <<"1">>,                          frac |-> 10000],
    [text |-> <<"0">>,                          frac |-> 0],
    [text |-> <<"a", "b", "c">>,                frac |-> -1],
    [text |-> NULL,                             frac |-> -1] }

\* scoreString members and the attempted count each one denotes; -1 for a
\* member that is missing or holds no '/'
ScoreStringTable ==
  { [text |-> <<"1", "2", " ", "/", " ", "1", "5">>, attempted |-> 15],
    [text |-> <<"9", " ", "/", " ", "1", "0">>,      attempted |-> 10],
    [text |-> <<"1", "4", "/", "1", "4">>,           attempted |-> 14],
    [text |-> <<"1", "0", " ", "/", " ", "2", "0">>, attempted |-> 20],
    [text |-> <<"1", "6", "/", "1", "6", " ">>,      attempted |-> 16],
    [text |-> <<"0", " ", "/", " ", "0">>,           attempted |-> 0],
    [text |-> <<"1", "5">>,                          attempted |-> -1],
    [text |-> NULL,                                  attempted |-> -1] }

AllPercentages == {row.text : row \in PercentageTable}

AllScoreStrings == {row.text : row \in ScoreStringTable}

InitVerdict ==
  /\ candidates = <<Invitee>>
  /\ questions = BankOf(GoBe, Tiers(1, 1, 1, 0, 0))
  /\ tokens = {TestTakerToken(Invitee, QuestionBankNameOf(Invitee))}
  /\ reqs = EmptyBag
  /\ resultMails = <<0>>
  /\ verdictWrites = << <<>> >>
  /\ response = NoResponse
  /\ examsServed = {}
  /\ SeededUsers

NextVerdict ==
  \/ /\ reqs = EmptyBag
     /\ \E tok \in Presented, pct \in AllPercentages, ss \in AllScoreStrings :
          SubmitFind(tok, pct, ss)
  \/ \E q \in InFlight : SubmitSave(q)
  \/ \E q \in InFlight, delivered \in Booleans : SubmitMail(q, delivered)

SpecVerdict == InitVerdict /\ [][NextVerdict]_vars

(***************************************************************************)
(* Closing an attempt: one onboarded candidate holding a token, its exam    *)
(* retrieved once; login, setup, submit and fail requests interleaved at   *)
(* their awaits                                                            *)
(***************************************************************************)
\* failureReason members of a request body: missing, empty, a reason
CloseReasons == {NULL, <<>>, <<"Tab switch">>}

\* the username and password members of a login body: the candidate's
\* username in upper case with the right, a wrong and a missing password, an
\* unknown username, and a missing one
Logins ==
  { <<<<"A">>, <<"p1">>>>, <<<<"A">>, <<"p2">>>>, <<<<"A">>, NULL>>,
    <<<<"z">>, <<"p1">>>>, <<NULL, <<"p1">>>> }

InitClose ==
  /\ candidates = <<Invitee>>
  /\ questions = BankOf(GoUndefined, <<<<"hard">>>>) \o BankOf(GoBe, Tiers(1, 1, 1, 0, 0))
  /\ tokens = {TestTakerToken(Invitee, QuestionBankNameOf(Invitee))}
  /\ reqs = EmptyBag
  /\ resultMails = <<0>>
  /\ verdictWrites = << <<>> >>
  /\ response = NoResponse
  /\ examsServed = {1}
  /\ SeededUsers

NextClose ==
  \/ \E l \in Logins : LoginFind(l[1], l[2])
  \/ \E q \in InFlight : LoginCompare(q)
  \/ \E tok \in Presented : SetupFindCandidate(tok)
  \/ \E q \in InFlight : SetupFindQuestions(q)
  \/ \E tok \in Presented, pct \in Percentages, ss \in ScoreStrings : SubmitFind(tok, pct, ss)
  \/ \E q \in InFlight : SubmitSave(q)
  \/ \E q \in InFlight, delivered \in Booleans : SubmitMail(q, delivered)
  \/ \E tok \in Presented, reason \in CloseReasons : FailFind(tok, reason)
  \/ \E q \in InFlight : FailSave(q)
  \/ \E tok \in tokens : Expire(tok)

SpecClose == InitClose /\ [][NextClose]_vars

(***************************************************************************)
(* The question bank: quizzer login and add, update and delete requests,   *)
(* the adds interleaved at their awaits                                    *)
(***************************************************************************)
\* a second bank whose name gives the same id prefix
GoBo == <<"G", "o", " ", "B", "o">>

Banks == {GoBe, GoBo}

\* the ids a request path can name
QuestionIds == {NewQuestionId(GoBe, c) : c \in 0..MaxStored}

InitBank ==
  /\ candidates = <<>>
  /\ questions = <<>>
  /\ tokens = {}
  /\ reqs = EmptyBag
  /\ resultMails = <<>>
  /\ verdictWrites = <<>>
  /\ response = NoResponse
  /\ examsServed = {}
  /\ SeededUsers

NextBank ==
  \/ QuizzerLogin(<<"e", "d">>, <<"pw-ed">>)
  \/ \E tok \in Presented, b \in Banks : AddCount(tok, b, <<"Easy">>)
  \/ \E q \in InFlight : AddSave(q)
  \/ \E tok \in Presented, b \in Banks, id \in QuestionIds : UpdateQuestion(tok, b, id, <<"HARD", " ">>)
  \/ \E tok \in Presented, b \in Banks, id \in QuestionIds : DeleteQuestion(tok, b, id)

SpecBank == InitBank /\ [][NextBank]_vars

(***************************************************************************)
(* Authorization: the three applications side by side, every request       *)
(* presenting any token issued so far; requests are handled one at a time  *)
(***************************************************************************)
InitAuth ==
  /\ candidates = <<>>
  /\ questions = <<>>
  /\ tokens = {}
  /\ reqs = EmptyBag
  /\ resultMails = <<>>
  /\ verdictWrites = <<>>
  /\ response = NoResponse
  /\ examsServed = {}
  /\ SeededUsers

\* no request is being handled
Alone == reqs = EmptyBag

NextAuth ==
  \/ Alone /\ \E u \in EnrollmentUsers : EnrollmentLogin(u.email, u.password)
  \/ Alone /\ \E u \in QuizzerUsers : QuizzerLogin(u.username, u.password)
  \/ Alone /\ \E u \in Emails, p \in GeneratedPasswords : LoginFind(u, p)
  \/ Alone /\ \E tok \in Presented : SetupFindCandidate(tok)
  \/ Alone /\ \E tok \in Presented, pct \in Percentages : SubmitFind(tok, pct, <<"1", "2", " ", "/", " ", "1", "5">>)
  \/ Alone /\ \E tok \in Presented, reason \in Reasons : FailFind(tok, reason)
  \/ Alone /\ \E tok \in Presented, e \in Emails, pj \in Projects : OnboardFind(tok, e, <<"G", "o">>, pj)
  \/ Alone /\ \E tok \in Presented : UsersSearch(tok)
  \/ Alone /\ \E tok \in Presented : AddCount(tok, GoBe, <<"Easy">>)
  \/ Alone /\ \E tok \in Presented : UpdateQuestion(tok, GoBe, NewQuestionId(GoBe, 0), <<"HARD", " ">>)
  \/ Alone /\ \E tok \in Presented : DeleteQuestion(tok, GoBe, NewQuestionId(GoBe, 0))
  \/ \E q \in InFlight : LoginCompare(q)
  \/ \E q \in InFlight : SetupFindQuestions(q)
  \/ \E q \in InFlight : SubmitSave(q)
  \/ \E q \in InFlight, delivered \in Booleans : SubmitMail(q, delivered)
  \/ \E q \in InFlight : FailSave(q)
  \/ \E q \in InFlight, p \in GeneratedPasswords : OnboardSave(q, p)
  \/ \E q \in InFlight, delivered \in Booleans : OnboardMail(q, delivered)
  \/ \E q \in InFlight : AddSave(q)

SpecAuth == InitAuth /\ [][NextAuth]_vars

(***************************************************************************)
(* Question ids: adds handled one at a time, to banks whose names give     *)
(* different prefixes; nothing is deleted                                  *)
(***************************************************************************)
\* bank names and the prefix of each: two words, one word in lower case,
\* three words in lower case
IdTable ==
  { [name |-> GoBe,                           prefix |-> <<"G", "B">>],
    [name |-> <<"u", "a">>,                   prefix |-> <<"U">>],
    [name |-> <<"a", " ", "g", " ", "u">>,    prefix |-> <<"A", "U">>] }

IdBanks == {row.name : row \in IdTable}

\* type members of a request body
IdTypes == {<<"Easy">>, <<"HARD", " ">>}

InitIds ==
  /\ candidates = <<>>
  /\ questions = <<>>
  /\ tokens = {}
  /\ reqs = EmptyBag
  /\ resultMails = <<>>
  /\ verdictWrites = <<>>
  /\ response = NoResponse
  /\ examsServed = {}
  /\ SeededUsers

NextIds ==
  \/ Alone /\ QuizzerLogin(<<"e", "d">>, <<"pw-ed">>)
  \/ Alone /\ \E tok \in Presented, b \in IdBanks, t \in IdTypes : AddCount(tok, b, t)
  \/ \E q \in InFlight : AddSave(q)

SpecIds == InitIds /\ [][NextIds]_vars

(***************************************************************************)
(* The question bank with every request handled alone: add, update and     *)
(* delete requests to two banks whose names give the same prefix           *)
(***************************************************************************)
InitSeq ==
  /\ candidates = <<>>
  /\ questions = <<>>
  /\ tokens = {}
  /\ reqs = EmptyBag
  /\ resultMails = <<>>
  /\ verdictWrites = <<>>
  /\ response = NoResponse
  /\ examsServed = {}
  /\ SeededUsers

NextSeq ==
  \/ Alone /\ QuizzerLogin(<<"e", "d">>, <<"pw-ed">>)
  \/ Alone /\ \E tok \in Presented, b \in Banks, t \in IdTypes : AddCount(tok, b, t)
  \/ \E q \in InFlight : AddSave(q)
  \/ Alone /\ \E tok \in Presented, b \in Banks, id \in QuestionIds :
                UpdateQuestion(tok, b, id, <<"HARD", " ">>)
  \/ Alone /\ \E tok \in Presented, b \in Banks, id \in QuestionIds : DeleteQuestion(tok, b, id)

SpecSeq == InitSeq /\ [][NextSeq]_vars

(***************************************************************************)
(* The status labels: one onboarded candidate holding a token; login,      *)
(* submit and fail requests interleaved at their awaits, the submits       *)
(* reaching each verdict and the fails giving a verdict label as reason    *)
(***************************************************************************)
StatusPercentages == {<<"0", ".", "8">>, <<"0", ".", "7", "4">>}

StatusScoreStrings ==
  {<<"1", "2", " ", "/", " ", "1", "5">>, <<"9", " ", "/", " ", "1", "0">>, <<"1", "5">>, NULL}

StatusReasons == {<<"Pass">>, NULL}

InitStatus ==
  /\ candidates = <<Invitee>>
  /\ questions = BankOf(GoBe, Tiers(1, 1, 1, 0, 0))
  /\ tokens = {TestTakerToken(Invitee, QuestionBankNameOf(Invitee))}
  /\ reqs = EmptyBag
  /\ resultMails = <<0>>
  /\ verdictWrites = << <<>> >>
  /\ response = NoResponse
  /\ examsServed = {1}
  /\ SeededUsers

NextStatus ==
  \/ LoginFind(<<"A">>, <<"p1">>)
  \/ \E q \in InFlight : LoginCompare(q)
  \/ \E tok \in Presented, pct \in StatusPercentages, ss \in StatusScoreStrings :
        SubmitFind(tok, pct, ss)
  \/ \E q \in InFlight : SubmitSave(q)
  \/ \E q \in InFlight, delivered \in Booleans : SubmitMail(q, delivered)
  \/ \E tok \in Presented, reason \in StatusReasons : FailFind(tok, reason)
  \/ \E q \in InFlight : FailSave(q)

SpecStatus == InitStatus /\ [][NextStatus]_vars

(***************************************************************************)
(* Enrollment: a TA holding a token; onboard and resend-credentials        *)
(* requests interleaved at their awaits, and the candidates they create    *)
(* logging in and failing their exam                                       *)
(***************************************************************************)
\* email members of a request body: an address, and the same address
\* preceded by white space
EnrollEmails == {<<"A">>, <<" ", "A">>}

\* the values generateRandomPassword returns to resend-credentials
ResentPasswords == {<<"p2">>}

TaToken == AdminToken("enrollment", "TA", <<"t", "a">>)

\* a candidate onboarded earlier under another address
Earlier ==
  NewCandidate(1, <<"b">>, <<"b">>, <<"p1">>, <<"t", "a">>, <<"G", "o">>, <<"B", "e">>)

InitEnroll ==
  /\ candidates = <<Earlier>>
  /\ questions = BankOf(GoBe, Tiers(1, 1, 1, 0, 0))
  /\ tokens = {TaToken}
  /\ reqs = EmptyBag
  /\ resultMails = <<0>>
  /\ verdictWrites = << <<>> >>
  /\ response = NoResponse
  /\ examsServed = {}
  /\ SeededUsers

NextEnroll ==
  \/ \E tok \in Presented, e \in EnrollEmails, pj \in Projects : OnboardFind(tok, e, <<"G", "o">>, pj)
  \/ \E q \in InFlight, p \in GeneratedPasswords : OnboardSave(q, p)
  \/ \E q \in InFlight, delivered \in Booleans : OnboardMail(q, delivered)
  \/ \E tok \in Presented, e \in EnrollEmails : ResendFind(tok, e)
  \/ \E q \in InFlight, p \in ResentPasswords : ResendSave(q, p)
  \/ \E q \in InFlight, delivered \in Booleans : ResendMail(q, delivered)
  \/ \E u \in EnrollEmails, p \in Passwords : LoginFind(u, p)
  \/ \E q \in InFlight : LoginCompare(q)
  \/ \E tok \in Presented, reason \in Reasons : FailFind(tok, reason)
  \/ \E q \in InFlight : FailSave(q)

SpecEnroll == InitEnroll /\ [][NextEnroll]_vars

(***************************************************************************)
(* The users of the two back-office applications: tas/onboard of the       *)
(* enrollment application and users/register of the quizzer, by Owners     *)
(* and Managers, interleaved at their awaits, and the created users        *)
(* logging in                                                              *)
(***************************************************************************)
\* the roles of the two user schemas
EnrollmentRoles == {"TA", "Manager", "Owner"}

\* a document violates the unique index of the EnrollmentUser collection
DuplicateEnrollmentUser(doc) == \E u \in enrollmentUsers : u.email = doc.email

\* POST /api/enrollment/tas/onboard without the test that only an Owner
\* creates an Owner
TaOnboardFindUnguarded(tok, firstName, lastName, email, role) ==
  /\ LET req  == Fresh("ta-onboard", tok, <<firstName, lastName, email, role>>)
         auth == Authorize(tok, {"Owner", "Manager"}, "enrollment")
     IN Arrive(
          IF auth # 0 THEN Respond(req, auth, <<>>)
          ELSE IF ~Truthy(firstName) \/ ~Truthy(lastName) \/ ~Truthy(email) \/ role = ""
            THEN Respond(req, 400, <<>>)
          ELSE IF role \notin EnrollmentRoles THEN Respond(req, 400, <<>>)
          ELSE IF \E u \in enrollmentUsers : u.email = ToLowerCase(email)
            THEN Respond(req, 409, <<>>)
          ELSE [req EXCEPT !.pc = "save"])
  /\ UNCHANGED <<candidates, questions, tokens, resultMails, verdictWrites>>
  /\ UNCHANGED <<enrollmentUsers, quizzerUsers, programmes>>

\* POST /api/enrollment/tas/onboard: middleware, the checks of the body and
\* EnrollmentUser.findOne; role = "" stands for a body without a role
TaOnboardFind(tok, firstName, lastName, email, role) ==
  /\ LET req  == Fresh("ta-onboard", tok, <<firstName, lastName, email, role>>)
         auth == Authorize(tok, {"Owner", "Manager"}, "enrollment")
     IN Arrive(
          IF auth # 0 THEN Respond(req, auth, <<>>)
          ELSE IF ~Truthy(firstName) \/ ~Truthy(lastName) \/ ~Truthy(email) \/ role = ""
            THEN Respond(req, 400, <<>>)
          ELSE IF role \notin EnrollmentRoles THEN Respond(req, 400, <<>>)
          ELSE IF role = "Owner" /\ tok.role # "Owner" THEN Respond(req, 403, <<>>)
          ELSE IF \E u \in enrollmentUsers : u.email = ToLowerCase(email)
            THEN Respond(req, 409, <<>>)
          ELSE [req EXCEPT !.pc = "save"])
  /\ UNCHANGED <<candidates, questions, tokens, resultMails, verdictWrites>>
  /\ UNCHANGED <<enrollmentUsers, quizzerUsers, programmes>>

\* generateRandomPassword, bcrypt.hash, new EnrollmentUser(...) and user.save():
\* schema validation and the unique index decide whether it is stored
TaOnboardSave(q, password) ==
  /\ q.kind = "ta-onboard" /\ q.pc = "save"
  /\ LET doc == [email |-> Trim(ToLowerCase(q.args[3])), password |-> password,
                 role |-> q.args[4]]
     IN IF ~Truthy(doc.email) \/ DuplicateEnrollmentUser(doc)
          THEN /\ Resume(q, Respond(q, 500, <<>>))
               /\ UNCHANGED enrollmentUsers
          ELSE /\ enrollmentUsers' = enrollmentUsers \cup {doc}
               /\ Resume(q, [q EXCEPT !.pc = "mail"])
  /\ UNCHANGED <<candidates, questions, tokens, resultMails, verdictWrites>>
  /\ UNCHANGED <<quizzerUsers, programmes>>

\* mailTransport.sendMail with the credentials has answered or failed
TaOnboardMail(q, delivered) ==
  /\ q.kind = "ta-onboard" /\ q.pc = "mail"
  /\ Continue(q, Respond(q, IF delivered THEN 201 ELSE 500, <<>>))
  /\ UNCHANGED <<candidates, questions, tokens, resultMails, verdictWrites>>

\* Programme.findOneAndUpdate({ name }, { $addToSet: { projects } }, { upsert })
AddToSet(programme, project) ==
  IF Truthy(programme) /\ Truthy(project)
    THEN programmes \cup {<<programme, project>>}
    ELSE programmes

\* POST /api/quizzer/users/register: middleware, the checks of the role and
\* the upsert of the programme
RegisterStart(tok, firstName, lastName, email, role, programme, project) ==
  /\ LET req  == Fresh("register", tok,
                       <<firstName, lastName, email, role, programme, project>>)
         auth == Authorize(tok, {"Owner", "Manager"}, "quizzer")
     IN IF auth # 0
          THEN Arrive(Respond(req, auth, <<>>)) /\ UNCHANGED programmes
        ELSE IF role \notin QuizzerRoles
          THEN Arrive(Respond(req, 400, <<>>)) /\ UNCHANGED programmes
        ELSE IF role = "Owner" /\ tok.role # "Owner"
          THEN Arrive(Respond(req, 403, <<>>)) /\ UNCHANGED programmes
        ELSE /\ Arrive([req EXCEPT !.pc = "find"])
             /\ programmes' = AddToSet(programme, project)
  /\ UNCHANGED <<candidates, questions, tokens, resultMails, verdictWrites>>
  /\ UNCHANGED <<enrollmentUsers, quizzerUsers>>

\* QuizzerUser.findOne({ email: email.toLowerCase() }); a body without an
\* email makes toLowerCase throw, which the catch answers
RegisterFind(q) ==
  /\ q.kind = "register" /\ q.pc = "find"
  /\ Continue(q,
       IF q.args[3] = NULL THEN Respond(q, 500, <<>>)
       ELSE IF \E u \in quizzerUsers : u.email = ToLowerCase(q.args[3])
         THEN Respond(q, 409, <<>>)
       ELSE [q EXCEPT !.pc = "save"])
  /\ UNCHANGED <<candidates, questions, tokens, resultMails, verdictWrites>>

\* `${firstName.toLowerCase()}.${lastName.toLowerCase().charAt(0)}`
UsernameOf(firstName, lastName) ==
  ToLowerCase(firstName) \o <<".">> \o SubSeq(ToLowerCase(lastName), 1, 1)

\* a document violates a unique index of the QuizzerUser collection
DuplicateQuizzerUser(doc) ==
  \E u \in quizzerUsers : u.email = doc.email \/ u.username = doc.username

\* generateRandomPassword, bcrypt.hash, the username, new QuizzerUser(...) and
\* user.save(): a missing name throws or fails the validation, and the
\* unique indexes decide whether the document is stored
RegisterSave(q, password) ==
  /\ q.kind = "register" /\ q.pc = "save"
  /\ IF ~Truthy(q.args[1]) \/ ~Truthy(q.args[2])
       THEN /\ Resume(q, Respond(q, 500, <<>>))
            /\ UNCHANGED quizzerUsers
       ELSE LET doc == [email |-> Trim(ToLowerCase(q.args[3])),
                        username |-> Trim(UsernameOf(q.args[1], q.args[2])),
                        password |-> password, role |-> q.args[4]]
            IN IF ~Truthy(doc.email) \/ DuplicateQuizzerUser(doc)
                 THEN /\ Resume(q, Respond(q, 500, <<>>))
                      /\ UNCHANGED quizzerUsers
                 ELSE /\ quizzerUsers' = quizzerUsers \cup {doc}
                      /\ Resume(q, [q EXCEPT !.pc = "mail"])
  /\ UNCHANGED <<candidates, questions, tokens, resultMails, verdictWrites>>
  /\ UNCHANGED <<enrollmentUsers, programmes>>

\* mailTransport.sendMail with the credentials has answered or failed
RegisterMail(q, delivered) ==
  /\ q.kind = "register" /\ q.pc = "mail"
  /\ Continue(q, Respond(q, IF delivered THEN 201 ELSE 500, <<>>))
  /\ UNCHANGED <<candidates, questions, tokens, resultMails, verdictWrites>>

\* the bodies of the tas/onboard requests: firstName, email and role
TaBodies ==
  { <<<<"a">>, <<"A">>, "Owner">>, <<<<"a">>, <<"A">>, "Manager">>,
    <<NULL, <<"A">>, "Owner">>, <<<<"a">>, <<"m", "g">>, "Owner">>,
    <<<<"a">>, <<"A">>, "Admin">> }

\* the bodies of the users/register requests: firstName, email, role and
\* programme
RegisterBodies ==
  { <<<<"a">>, <<"A">>, "Owner", <<"P">>>>, <<<<"a">>, <<"A">>, "Manager", NULL>>,
    <<NULL, <<"A">>, "Owner", NULL>>, <<<<"a">>, <<"m", "g">>, "Owner", NULL>>,
    <<<<"a">>, <<"A">>, "", <<"P">>>> }

\* the Owner and the Manager each application is deployed with
EnrollmentOwner == [email |-> <<"o", "w">>, password |-> <<"pw-ow">>, role |-> "Owner"]

QuizzerOwner ==
  [email |-> <<"o", "w">>, username |-> <<"o", ".", "w">>, password |-> <<"pw-ow">>,
   role |-> "Owner"]

QuizzerManager ==
  [email |-> <<"m", "g">>, username |-> <<"m", ".", "g">>, password |-> <<"pw-mg">>,
   role |-> "Manager"]

InitUsers ==
  /\ candidates = <<>>
  /\ questions = <<>>
  /\ tokens = { AdminToken("enrollment", "Owner", <<"o", "w">>),
                AdminToken("enrollment", "Manager", <<"m", "g">>),
                AdminToken("quizzer", "Owner", <<"o", "w">>),
                AdminToken("quizzer", "Manager", <<"m", "g">>) }
  /\ reqs = EmptyBag
  /\ resultMails = <<>>
  /\ verdictWrites = <<>>
  /\ response = NoResponse
  /\ examsServed = {}
  /\ enrollmentUsers = EnrollmentUsers \cup {EnrollmentOwner}
  /\ quizzerUsers = QuizzerUsers \cup {QuizzerOwner, QuizzerManager}
  /\ programmes = {}

NextUsers ==
  \/ \E tok \in tokens, b \in TaBodies : TaOnboardFind(tok, b[1], <<"b">>, b[2], b[3])
  \/ \E q \in InFlight, p \in GeneratedPasswords : TaOnboardSave(q, p)
  \/ \E q \in InFlight, delivered \in Booleans : TaOnboardMail(q, delivered)
  \/ \E tok \in tokens, b \in RegisterBodies :
        RegisterStart(tok, b[1], <<"b">>, b[2], b[3], b[4], <<"B", "e">>)
  \/ \E q \in InFlight : RegisterFind(q)
  \/ \E q \in InFlight, p \in GeneratedPasswords : RegisterSave(q, p)
  \/ \E q \in InFlight, delivered \in Booleans : RegisterMail(q, delivered)
  \/ Alone /\ \E p \in GeneratedPasswords : EnrollmentLogin(<<"A">>, p)

SpecUsers == InitUsers /\ [][NextUsers]_vars

(***************************************************************************)
(* Termination of the test-taker requests: login, setup, submit and fail   *)
(* interleaved at their awaits, every awaited store, bcrypt or mail call   *)
(* either returning or failing, and each pending call completing in the    *)
(* end                                                                     *)
(***************************************************************************)
\* the requests of the test application
TestKinds == {"login", "setup", "submit", "fail"}

\* the first await of a handler rejects (Candidate.findOne or
\* Candidate.findById fails): the catch answers 500
FindFails(kind, tok, args) ==
  /\ kind \in TestKinds
  /\ IF kind = "login" THEN Truthy(args[1]) /\ Truthy(args[2])
                       ELSE Authorize(tok, {}, "test-taker") = 0
  /\ Start(Respond(Fresh(kind, tok, args), 500, <<>>))
  /\ UNCHANGED <<candidates, questions, tokens, resultMails, verdictWrites>>

\* a later await of the handler rejects (bcrypt.compare, QuestionBankItem.find
\* or candidate.save fails): nothing is written and the catch answers 500
AwaitFails(q) ==
  /\ q.kind \in TestKinds /\ q.pc \in {"compare", "questions", "save"}
  /\ Continue(q, Respond(q, 500, <<>>))
  /\ UNCHANGED <<candidates, questions, tokens, resultMails, verdictWrites>>

\* the token of a candidate whose record is no longer in the store
OrphanToken == TestTakerToken([NoDoc EXCEPT !.id = 2], GoBe)

LiveTokens == {TestTakerToken(Invitee, GoBe), OrphanToken}

LiveLogins == {<<<<"A">>, <<"p1">>>>, <<<<"A">>, <<"p2">>>>}

LiveScoreStrings == {<<"1", "2", " ", "/", " ", "1", "5">>}

\* what tells the requests apart: route, token and body
LiveIds ==
  {<<"login", NoToken, l>> : l \in LiveLogins}
    \cup {<<"setup", tok, <<>>>> : tok \in LiveTokens}
    \cup {<<"submit", tok, <<pct, ss>>>> :
            tok \in LiveTokens, pct \in Percentages, ss \in LiveScoreStrings}
    \cup {<<"fail", tok, <<reason>>>> : tok \in LiveTokens, reason \in Reasons}

\* the requests that reach an await past the first: a login, and a request
\* under the token of the stored candidate; the others are answered in the
\* step of their arrival
AwaitingIds ==
  {id \in LiveIds : id[1] = "login" \/ id[2] = TestTakerToken(Invitee, GoBe)}

SameRequest(q, id) == q.kind = id[1] /\ q.tok = id[2] /\ q.args = id[3]

InitLive ==
  /\ candidates = <<Invitee>>
  /\ questions = BankOf(GoBe, Tiers(1, 0, 0, 0, 0))
  /\ tokens = LiveTokens
  /\ reqs = EmptyBag
  /\ resultMails = <<0>>
  /\ verdictWrites = << <<>> >>
  /\ response = NoResponse
  /\ examsServed = {}
  /\ SeededUsers

\* a request arrives and runs to its first await
ArriveLive ==
  \/ \E l \in LiveLogins : LoginFind(l[1], l[2])
  \/ \E tok \in LiveTokens : SetupFindCandidate(tok)
  \/ \E tok \in LiveTokens, pct \in Percentages, ss \in LiveScoreStrings : SubmitFind(tok, pct, ss)
  \/ \E tok \in LiveTokens, reason \in Reasons : FailFind(tok, reason)
  \/ \E id \in AwaitingIds : FindFails(id[1], id[2], id[3])

\* the call the request q awaits completes, and q runs to its next await or
\* to its response
StepLive(q) ==
  \/ LoginCompare(q)
  \/ SetupFindQuestions(q)
  \/ SubmitSave(q)
  \/ \E delivered \in Booleans : SubmitMail(q, delivered)
  \/ FailSave(q)
  \/ AwaitFails(q)

NextLive ==
  \/ ArriveLive
  \/ \E q \in InFlight : StepLive(q)

\* each store, bcrypt and mail call returns or fails: the pending call of
\* every request completes in the end
FairLive ==
  \A id \in AwaitingIds : WF_vars(\E q \in InFlight : SameRequest(q, id) /\ StepLive(q))

SpecLive == InitLive /\ [][NextLive]_vars /\ FairLive

(***************************************************************************)
(* Properties                                                              *)
(***************************************************************************)
\* a response of the given kind of request was sent by the last step
Answered(kind) == response.pc = "done" /\ response.kind = kind

\* the request of the response carried a valid test-taker token
ByTestTaker == Authorize(response.tok, {}, "test-taker") = 0

Range(f) == {f[i] : i \in DOMAIN f}

ThreeTiers == {<<"easy">>, <<"moderate">>, <<"hard">>}

\* the number of stored questions of a bank and tier
BankCount(bank, type) ==
  Cardinality({i \in 1..Len(questions) : questions[i].bank = bank /\ questions[i].type = type})

BankSize(bank) == Cardinality({i \in 1..Len(questions) : questions[i].bank = bank})

\* the number of questions of a tier in a question list
TierCount(list, type) == Cardinality({i \in 1..Len(list) : list[i].type = type})

\* the count of the scarcest tier of a bank
Scarcest(bank) ==
  CHOOSE n \in {BankCount(bank, t) : t \in ThreeTiers} : \A t \in ThreeTiers : n <= BankCount(bank, t)

\* C1: once a candidate's result is non-empty, its result, score, status
\* and videoLink never change again, under any interleaving of the requests.
C1_ClosedIsFrozen ==
  [][\A i \in 1..Len(candidates) :
       Truthy(candidates[i].result) =>
         \A f \in VerdictFields : candidates'[i][f] = candidates[i][f]]_vars

\* C2: of a submit call and a fail call running concurrently for the same
\* open candidate exactly one persists its verdict; the other writes nothing.
C2_ExactlyOnePersists ==
  \A i \in 1..Len(verdictWrites) :
     ~("submit" \in Range(verdictWrites[i]) /\ "fail" \in Range(verdictWrites[i]))

\* a submit or fail request arrived in this step and was answered at once
ReplayAnswered(i) ==
  /\ reqs' = reqs
  /\ response'.pc = "done" /\ response'.kind \in {"submit", "fail"}
  /\ Authorize(response'.tok, {}, "test-taker") = 0 /\ response'.tok.id = i

\* a submit or fail request arrived in this step and went on to its save
ReplayAccepted(i) ==
  \E q \in BagToSet(reqs') :
     /\ q.kind \in {"submit", "fail"} /\ q.tok.id = i /\ q.pc = "save"
     /\ CopiesIn(q, reqs') > CopiesIn(q, reqs)

\* C3: a submit or fail call that starts after an earlier submit or fail
\* call of the candidate has persisted its verdict is answered 403 and
\* leaves the persisted status, result, score and videoLink as they were.
C3_ReplayRejected ==
  [][\A i \in 1..Len(candidates) :
       verdictWrites[i] # <<>> =>
         /\ ~ReplayAccepted(i)
         /\ ReplayAnswered(i) =>
              /\ response'.resp = 403 /\ ~response'.wrote
              /\ candidates' = candidates]_vars

\* a fail call was answered 403 after a submit had persisted 'Pass'
C3_Witness ==
  /\ Answered("fail") /\ response.resp = 403 /\ ByTestTaker
  /\ verdictWrites[response.tok.id] = <<"submit">>
  /\ candidates[response.tok.id].status = <<"Pass">>
  /\ candidates[response.tok.id].result = <<"1", "2", " ", "/", " ", "1", "5">>

\* the login request of the response gave the password of the record it read
CorrectPassword == response.args[2] = response.doc.password

\* C4 (as amended): a login with correct credentials that reads the record
\* of a candidate whose result is set, or whose status is 'Pass' or 'Fail',
\* is answered 403 and issues no token; so no login that starts after the
\* candidate is closed issues a token for it.
C4_ClosedLoginRejected ==
  (/\ Answered("login") /\ response.doc # NoDoc /\ CorrectPassword
   /\ \/ response.sawClosed
      \/ response.doc.status \in {<<"Pass">>, <<"Fail">>}) =>
     /\ response.resp = 403
     /\ response.out = <<>>

\* a login with the right password for a closed candidate was answered 403
C4_Witness ==
  /\ Answered("login") /\ response.doc # NoDoc /\ CorrectPassword
  /\ response.sawClosed /\ response.resp = 403
  /\ Truthy(candidates[response.doc.id].result)

\* C4 (as claimed): after a candidate is closed no test-taker token is
\* issued for that candidate.
C4_NoTokenAfterClose ==
  [][(response'.pc = "done" /\ response'.kind = "login" /\ response'.resp = 200) =>
       ~Truthy(candidates[response'.doc.id].result)]_vars

\* C5: a successful fetchExam returns exactly 3 * min(e, m, h) questions,
\* min(e, m, h) of each tier, whatever else the bank holds.
C5_ExamLength ==
  (Answered("setup") /\ response.resp = 200) =>
     /\ Len(response.out) = 3 * Scarcest(response.tok.bank)
     /\ \A t \in ThreeTiers : TierCount(response.out, t) = Scarcest(response.tok.bank)

\* an exam of one triplet was served from a bank with surplus easy questions
\* and a question outside the three tiers
C5_Witness ==
  /\ Answered("setup") /\ response.resp = 200 /\ Len(response.out) = 3
  /\ BankCount(response.tok.bank, <<"easy">>) = 2
  /\ BankCount(response.tok.bank, <<"tricky">>) = 1

\* the orders in which shuffleArray can leave a triplet of the three tiers
TripletOrders ==
  {shuffleArray(<< <<"easy">>, <<"moderate">>, <<"hard">> >>, rnd) : rnd \in RandomDraws(3)}

\* C6: the questions at positions 3k, 3k+1, 3k+2 of an assembled exam are
\* one easy, one moderate and one hard question, and each of the 6 orders
\* of the tiers is a possible outcome of the shuffle of a triplet.
C6_TripletTiers ==
  (Answered("setup") /\ response.resp = 200) =>
     /\ \A k \in 0..((Len(response.out) \div 3) - 1) :
          {response.out[3 * k + j].type : j \in 1..3} = ThreeTiers
     /\ Len(response.out) % 3 = 0
     /\ Len(response.out) >= 3 =>
          /\ TripletOrders = {p \in [1..3 -> ThreeTiers] : Range(p) = ThreeTiers}
          /\ <<response.out[1].type, response.out[2].type, response.out[3].type>> \in TripletOrders

\* an exam of two triplets whose tiers come in two different orders
C6_Witness ==
  /\ Answered("setup") /\ response.resp = 200 /\ Len(response.out) = 6
  /\ <<response.out[1].type, response.out[2].type, response.out[3].type>>
       = << <<"hard">>, <<"easy">>, <<"moderate">> >>
  /\ <<response.out[4].type, response.out[5].type, response.out[6].type>>
       = << <<"moderate">>, <<"hard">>, <<"easy">> >>

\* C7: fetchExam for a bank without any question answers 404 and never a
\* success carrying an empty list (an attempt found closed answers 403
\* before the bank is read).
C7_EmptyBankNotFound ==
  (Answered("setup") /\ ByTestTaker /\ BankSize(response.tok.bank) = 0) =>
     /\ response.resp # 200
     /\ ~response.sawClosed => response.resp = 404

\* a setup request on the empty bank was answered 404
C7_Witness ==
  /\ Answered("setup") /\ ByTestTaker /\ BankSize(response.tok.bank) = 0
  /\ response.resp = 404 /\ Len(questions) > 0

\* C8: fetchExam for a bank that holds a question but none of some tier
\* answers success with an empty question list.
C8_MissingTierEmptyExam ==
  (/\ Answered("setup") /\ ByTestTaker /\ ~response.sawClosed
   /\ BankSize(response.tok.bank) > 0
   /\ \E t \in ThreeTiers : BankCount(response.tok.bank, t) = 0) =>
     /\ response.resp = 200
     /\ response.out = <<>>

\* an empty exam was served from a bank with easy and moderate questions only
C8_Witness ==
  /\ Answered("setup") /\ response.resp = 200 /\ response.out = <<>>
  /\ BankCount(response.tok.bank, <<"easy">>) = 2
  /\ BankCount(response.tok.bank, <<"moderate">>) = 1
  /\ BankCount(response.tok.bank, <<"hard">>) = 0

\* the submit requests whose save was applied and that are not yet answered
SavedSubmits == {q \in InFlight : q.kind = "submit" /\ q.wrote}

PercentageRow(q) == CHOOSE row \in PercentageTable : row.text = q.args[1]

ScoreStringRow(q) == CHOOSE row \in ScoreStringTable : row.text = q.args[2]

\* the fraction a request is scored on: 0 when the member denotes none
FractionOf(q) == IF PercentageRow(q).frac < 0 THEN 0 ELSE PercentageRow(q).frac

\* C9: the status a submit persists is 'Not Qualified' when the attempted
\* count is below 15, else 'Pass' when the fraction is at least 0.75, else
\* 'Fail'; attempted = 15 with fraction = 0.75 gives 'Pass'.
C9_Verdict ==
  \A q \in SavedSubmits :
     LET stored == candidates[q.tok.id] IN
     /\ ScoreStringRow(q).attempted >= 0
     /\ ScoreStringRow(q).attempted < 15 => stored.status = <<"Not Qualified">>
     /\ (ScoreStringRow(q).attempted >= 15 /\ FractionOf(q) >= 7500) => stored.status = <<"Pass">>
     /\ (ScoreStringRow(q).attempted >= 15 /\ FractionOf(q) < 7500) => stored.status = <<"Fail">>

\* the boundary submit (15 attempted, fraction 0.75) was persisted as 'Pass'
C9_Witness ==
  \E q \in SavedSubmits :
     /\ ScoreStringRow(q).attempted = 15 /\ FractionOf(q) = 7500
     /\ candidates[q.tok.id].status = <<"Pass">>

\* text is a number with exactly one decimal place followed by '%', and that
\* number is the tenth nearest to h hundredths
OneDecimalPercent(text, h) ==
  \E t \in 0..1000 :
     /\ text = NatToStr(t \div 10) \o <<".", Digits[(t % 10) + 1], "%">>
     /\ 10 * t - h <= 5 /\ h - 10 * t <= 5

\* C10: the score a submit persists is the fraction times 100 with exactly
\* one decimal place and '%' (0.8 gives "80.0%", a missing or non-numeric
\* percentage "0.0%"), the result is the scoreString unchanged, and
\* videoLink stays empty.
C10_Score ==
  \A q \in SavedSubmits :
     LET stored == candidates[q.tok.id] IN
     /\ OneDecimalPercent(stored.score, FractionOf(q))
     /\ q.args[1] = <<"0", ".", "8">> => stored.score = <<"8", "0", ".", "0", "%">>
     /\ PercentageRow(q).frac < 0 => stored.score = <<"0", ".", "0", "%">>
     /\ stored.result = q.args[2]
     /\ ~Truthy(stored.videoLink)

\* the submit of fraction 0.8 was persisted with score "80.0%"
C10_Witness ==
  \E q \in SavedSubmits :
     /\ q.args[1] = <<"0", ".", "8">>
     /\ candidates[q.tok.id].score = <<"8", "0", ".", "0", "%">>
     /\ candidates[q.tok.id].result = q.args[2]


\* what the fail handler assigns before its save
FailWrites(doc, reason) ==
  /\ doc.score = <<"0", ".", "0", "%">>
  /\ doc.result = <<"0", " ", "/", " ", "0">>
  /\ doc.status = reason
  /\ doc.videoLink = reason

\* the last step applied the save of a fail request
FailSaved == Answered("fail") /\ response.wrote

\* C11: the save of a fail(reason) call onto a candidate whose stored record
\* is open leaves the record with score "0.0%", result "0 / 0" and both
\* status and videoLink equal to the reason, and closed, whatever the reason
\* (missing and empty included)
C11_FailRecord ==
  [][ (FailSaved' /\ ~Closed(candidates[response'.doc.id])) =>
        /\ FailWrites(candidates'[response'.doc.id], response'.args[1])
        /\ Closed(candidates'[response'.doc.id]) ]_vars

\* a fail without a reason closed an open candidate
C11_Witness ==
  /\ FailSaved
  /\ response.args[1] = NULL
  /\ verdictWrites[response.doc.id] = <<"fail">>
  /\ Closed(candidates[response.doc.id])

\* C12: a fail request that closed a candidate with a recorded recruiter
\* email is answered only after a result notification was handed to
\* mailTransport.sendMail
C12_FailNotifies ==
  (FailSaved /\ Truthy(response.doc.taEmail)) => response.handed

\* the last step answered a submit whose send of the result mail failed
SendFailed == Answered("submit") /\ response.handed /\ response.resp = 500

\* the verdict fields of two documents agree
SameVerdict(a, b) == \A f \in VerdictFields : a[f] = b[f]

\* the last step answered a submit, a fail or a login with the right password
\* that read the candidate closed
ClosedAttempt ==
  /\ response.pc = "done"
  /\ response.sawClosed
  /\ \/ response.kind \in {"submit", "fail"}
     \/ response.kind = "login" /\ response.args[2] = response.doc.password

\* C13: a failed send of the result mail rolls nothing back: the step leaves
\* every record as it is, the candidate closed and, when this call is the
\* one that wrote, with the fields it wrote; a request answered after its
\* save threw (fail) leaves the candidate closed as well; a closed candidate
\* stays closed, and every submit, fail or login that reads it closed is
\* answered 403
C13_NoRollback ==
  [][ /\ SendFailed' =>
           /\ candidates' = candidates
           /\ Closed(candidates'[response'.doc.id])
           /\ (verdictWrites'[response'.doc.id] = <<"submit">> =>
                  SameVerdict(candidates'[response'.doc.id], response'.doc))
      /\ FailSaved' => Closed(candidates'[response'.doc.id])
      /\ \A i \in 1..Len(candidates) : Closed(candidates[i]) => Closed(candidates'[i])
      /\ ClosedAttempt' => response'.resp = 403 ]_vars

\* the only verdict request so far was a submit whose mail was not
\* delivered, and a later request of the candidate is answered 403
C13_Witness ==
  /\ verdictWrites[1] = <<"submit">>
  /\ resultMails[1] = 0
  /\ reqs = EmptyBag
  /\ ClosedAttempt
  /\ response.resp = 403
  /\ SameVerdict(candidates[1], [Invitee EXCEPT !.score  = <<"8", "0", ".", "0", "%">>,
                                                !.result = <<"1", "2", " ", "/", " ", "1", "5">>,
                                                !.status = <<"Pass">>])

\* no two stored questions share a questionId
UniqueQuestionIds ==
  \A i, j \in 1..Len(questions) : questions[i].qid = questions[j].qid => i = j

\* the last step answered an add request that was admitted and not stored
AddRefused ==
  /\ Answered("add")
  /\ Authorize(response.tok, QuizzerRoles, "quizzer") = 0
  /\ ~response.wrote

\* C20: no two stored questions share a questionId, in any bank and under
\* any interleaving of adds; an add that is not stored is answered with an
\* error (500) and the id it computed is held by a stored question
C20_UniqueQuestionIds ==
  /\ UniqueQuestionIds
  /\ AddRefused => /\ response.resp = 500
                    /\ DuplicateQuestionId(response.args[3])

\* two adds to one bank computed the first id of the bank: one is stored,
\* the other is answered 500
C20_Witness ==
  /\ AddRefused
  /\ response.resp = 500
  /\ Len(questions) = 1
  /\ questions[1].bank = response.args[1]
  /\ questions[1].qid = response.args[3]
  /\ response.args[3] = <<"G", "B", "0", "0", "1">>

\* the request of the last step's response was answered on arrival, before
\* its handler awaited anything
AnsweredOnArrival(kind) == Answered(kind) /\ response.loaded = NoDoc

\* a request of the given kind and token went into flight in this step
Admitted(kind, tok) ==
  \E q \in BagToSet(reqs') :
    /\ q.kind = kind /\ q.tok = tok
    /\ CopiesIn(q, reqs') > CopiesIn(q, reqs)

\* C16: a fetchExam with a valid token whose candidate has a non-empty
\* result in the store when the handler reads it is answered 403 without
\* questions, and is not admitted to the assembler
C16_ClosedExamRefused ==
  [][ \A tok \in tokens :
        (Authorize(tok, {}, "test-taker") = 0 /\ Closed(FindById(tok.id))) =>
          /\ ~Admitted("setup", tok)
          /\ (AnsweredOnArrival("setup")' /\ response'.tok = tok) =>
                (response'.resp = 403 /\ response'.out = <<>>) ]_vars

\* a fetchExam with the token issued while the candidate was open is
\* answered 403 after a fail closed the candidate
C16_Witness ==
  /\ AnsweredOnArrival("setup")
  /\ response.tok \in tokens /\ ByTestTaker
  /\ response.resp = 403
  /\ verdictWrites[response.tok.id] = <<"fail">>
  /\ Closed(candidates[response.tok.id])

\* this step is a step of a fetchExam request: it arrives or it is answered
SetupStep ==
  \/ \E tok \in tokens \cup {NoToken} : Admitted("setup", tok)
  \/ Answered("setup")' /\ response' # response
  \/ \E q \in BagToSet(reqs) : q.kind = "setup" /\ CopiesIn(q, reqs') < CopiesIn(q, reqs)

\* C17: a step of fetchExam changes no candidate and no question, whatever
\* its outcome; a fetchExam with a valid token that reads the record while
\* result is empty is never refused, and every admitted one returns an exam,
\* however many were answered or are in flight with the same token
C17_ExamReadOnly ==
  [][ /\ SetupStep =>
           /\ candidates' = candidates
           /\ questions' = questions
           /\ verdictWrites' = verdictWrites
           /\ resultMails' = resultMails
      /\ \A tok \in tokens :
           (Authorize(tok, {}, "test-taker") = 0 /\ ~Closed(FindById(tok.id))) =>
             ~(AnsweredOnArrival("setup")' /\ response'.tok = tok /\ response' # response)
      /\ (Answered("setup")' /\ ~AnsweredOnArrival("setup")') =>
           (response'.resp = 200 /\ Len(response'.out) = 3) ]_vars

\* a fetchExam returns an exam while another fetchExam with the same token
\* is in flight, the candidate still open
C17_Witness ==
  /\ Answered("setup") /\ response.resp = 200 /\ Len(response.out) = 3
  /\ ~Closed(candidates[response.tok.id])
  /\ \E q \in InFlight : q.kind = "setup" /\ q.tok = response.tok

\* the last step answered a fetchExam with an exam
ExamReturned == Answered("setup") /\ response.resp = 200

\* C18 (as claimed): a token authorizes one call into the assembler; right
\* after a fetchExam returned an exam, no further fetchExam with the same
\* token is admitted to the assembler or returns an exam
C18_OneExamPerToken ==
  [][ ExamReturned =>
        /\ ~Admitted("setup", response.tok)
        /\ ~(ExamReturned' /\ response'.tok = response.tok) ]_vars

\* C18 (amended): a valid token authorizes a call into the assembler
\* exactly while the stored result of its candidate is empty, whatever the
\* number of exams returned or being assembled for it: an arriving fetchExam
\* is never refused while the record is open, and never admitted once it is
\* closed
C18_ExamWhileOpen ==
  [][ \A tok \in tokens :
        Authorize(tok, {}, "test-taker") = 0 =>
          /\ ~Closed(FindById(tok.id)) =>
                ~(AnsweredOnArrival("setup")' /\ response'.tok = tok /\ response' # response)
          /\ Closed(FindById(tok.id)) => ~Admitted("setup", tok) ]_vars

\* two fetchExam calls with one token are in the assembler at once, the
\* candidate open: each of them returns an exam
C18_Witness ==
  \E q \in InFlight :
    /\ q.kind = "setup" /\ q.pc = "questions"
    /\ CopiesIn(q, reqs) = 2
    /\ q.tok \in tokens
    /\ ~Closed(candidates[q.tok.id])
\* the last step answered a login that gave the password of the record it read
LoginAnswered ==
  /\ Answered("login")
  /\ response.loaded # NoDoc
  /\ response.args[2] = response.loaded.password

\* C19: a fetchExam, submit or fail presenting an expired test-taker token
\* is refused (403) on arrival and changes no candidate record, so an open
\* record stays open; a login with the right password that reads the record
\* open is answered with a token that is not expired and authorizes the
\* test-taker routes, and one that reads the record closed gets 403 and no
\* token
C19_ExpiredToken ==
  [][ /\ \A tok \in tokens : tok.expired =>
           /\ \A kind \in {"setup", "submit", "fail"} : ~Admitted(kind, tok)
           /\ \A kind \in {"setup", "submit", "fail"} :
                (Answered(kind)' /\ response'.tok = tok /\ response' # response) =>
                  (response'.resp = 403 /\ candidates' = candidates)
      /\ (LoginAnswered' /\ response' # response) =>
           IF AlreadyAttempted(response'.loaded)
             THEN response'.resp = 403 /\ tokens' = tokens
             ELSE /\ response'.resp = 200
                  /\ response'.out[1] \in tokens'
                  /\ Authorize(response'.out[1], {}, "test-taker") = 0
                  /\ response'.out[1].id = response'.loaded.id ]_vars

\* the token of an open candidate has expired and a login has issued a
\* fresh one
C19_Witness ==
  /\ LoginAnswered /\ response.resp = 200
  /\ ~Closed(candidates[response.loaded.id])
  /\ \E tok \in tokens : tok.expired /\ tok.id = response.loaded.id
  /\ \E tok \in tokens : ~tok.expired /\ tok = response.out[1]

\* the operations behind authorize(allowedRoles, allowedScope) and the
\* arguments their routes give it ({} for null)
GuardedKinds == {"setup", "submit", "fail", "onboard", "users-search", "add", "put", "delete"}

GuardOf(kind) ==
  CASE kind \in {"setup", "submit", "fail"} -> [roles |-> {}, scope |-> "test-taker"]
    [] kind = "onboard"                     -> [roles |-> {"TA", "Manager", "Owner"}, scope |-> "enrollment"]
    [] kind = "users-search"                -> [roles |-> {"Owner", "Manager"}, scope |-> "enrollment"]
    [] kind \in {"add", "put", "delete"}    -> [roles |-> {"Owner", "Manager", "Editor"}, scope |-> "quizzer"]

\* the token's scope differs from the allowed one, or its role is not in a
\* non-null list of allowed roles
Forbidden(tok, guard) ==
  \/ tok.scope # guard.scope
  \/ guard.roles # {} /\ tok.role \notin guard.roles

\* C15: a request to an operation behind authorize whose token has another
\* scope, or a role outside a non-null list, is answered 403 on arrival: its
\* handler is not entered and candidates, questions, tokens, mails and
\* verdict records are unchanged (so no enrollment or quizzer token runs
\* setup, submit or fail, and no test-taker token runs an enrollment or
\* quizzer operation)
C15_ForbiddenFailsClosed ==
  [][ \A kind \in GuardedKinds, tok \in tokens :
        Forbidden(tok, GuardOf(kind)) =>
          /\ ~Admitted(kind, tok)
          /\ (Answered(kind)' /\ response'.tok = tok /\ response' # response) =>
                /\ response'.resp = 403
                /\ UNCHANGED <<candidates, questions, tokens, resultMails, verdictWrites>> ]_vars

\* a submit presenting a quizzer token is refused while a candidate is open
\* and a test-taker token exists
C15_Witness ==
  /\ Answered("submit") /\ response.resp = 403
  /\ response.tok.scope = "quizzer"
  /\ Len(candidates) = 1 /\ ~Closed(candidates[1])
  /\ \E tok \in tokens : tok.scope = "test-taker"

\* the stored questions outside the bank, in store order
OutsideBank(store, questionBankName) ==
  SelectSeq(store, LAMBDA x : x.bank # questionBankName)

\* the last step answered an update or delete addressed to a bank
BankWrite == (Answered("put") \/ Answered("delete")) /\ response.wrote

\* C21: an update or delete addressed to bank B (the name in the path)
\* leaves the questions of every other bank as they are, also when the id
\* in the path is the id of a question of another bank
C21_OtherBanksUntouched ==
  [][ (BankWrite' /\ response' # response) =>
        OutsideBank(questions', response'.args[1]) = OutsideBank(questions, response'.args[1]) ]_vars

\* C22: a submit on an open candidate whose result mail is delivered, and a
\* fail that closed an open candidate, are answered with success (200); a
\* submit or fail with a valid token is answered 403 only when a verdict
\* was persisted for the candidate before
C22_FirstCallSucceeds ==
  [][ /\ (Answered("submit")' /\ response' # response /\ response'.handed
           /\ resultMails'[response'.doc.id] = resultMails[response'.doc.id] + 1) =>
             response'.resp = 200
      /\ (FailSaved' /\ response' # response) => response'.resp = 200
      /\ \A kind \in {"submit", "fail"} :
           (Answered(kind)' /\ response' # response /\ response'.resp = 403
              /\ Authorize(response'.tok, {}, "test-taker") = 0) =>
             verdictWrites[response'.tok.id] # <<>> ]_vars

\* a candidate no submit or fail has written to
Untouched(i) == verdictWrites[i] = <<>>

\* C23: no two candidates share an email or a username, every candidate's
\* username is its lowercased email, and a candidate no verdict was written
\* to has status 'Mail Sent' and no result
C23_OnboardedCandidates ==
  /\ \A i, j \in 1..Len(candidates) :
       i # j => /\ candidates[i].email # candidates[j].email
                /\ candidates[i].username # candidates[j].username
  /\ \A i \in 1..Len(candidates) :
       /\ candidates[i].username = ToLowerCase(candidates[i].email)
       /\ Untouched(i) => /\ candidates[i].status = <<"Mail Sent">>
                          /\ candidates[i].result = NULL

\* the verdict fields as onboarding leaves them
VerdictUnset(doc) ==
  /\ doc.status = <<"Mail Sent">>
  /\ doc.result = NULL /\ doc.score = NULL /\ doc.videoLink = NULL

\* the verdict fields as one submit writes them
SubmitShaped(doc) ==
  /\ doc.videoLink = NULL
  /\ doc.result \in ScoreStrings \ {NULL}
  /\ doc.status \in {<<"Pass">>, <<"Fail">>}
  /\ doc.score \in {ScoreText(NumOr(ParseFloat(pct), 0)) : pct \in Percentages}

\* the verdict fields as one fail writes them
FailShaped(doc) ==
  /\ doc.result = <<"0", " ", "/", " ", "0">>
  /\ doc.score = <<"0", ".", "0", "%">>
  /\ doc.status = doc.videoLink

\* C24: the verdict fields of every candidate are all unset, or the values
\* of one submit (videoLink empty), or the values of one fail (result
\* '0 / 0', score '0.0%', status equal to videoLink); never a mix
C24_VerdictOfOneCall ==
  \A i \in 1..Len(candidates) :
     VerdictUnset(candidates[i]) \/ SubmitShaped(candidates[i]) \/ FailShaped(candidates[i])

\* C25: for every candidate the mail collaborator delivers at most one
\* result notification, whatever the interleaving of submit and fail
C25_OneNotification ==
  \A i \in 1..Len(candidates) : resultMails[i] <= 1

\* C26: a login with a missing username or password is answered 400 on
\* arrival, whether or not the username is stored; one with an unknown
\* username, and one with a wrong password, is answered 401, also when the
\* candidate read is closed; none of them issues a token
C26_LoginRefusals ==
  [][ Answered("login")' =>
        LET r == response'
            given == Truthy(r.args[1]) /\ Truthy(r.args[2])
        IN /\ ~given => (r.resp = 400 /\ AnsweredOnArrival("login")')
           /\ (given /\ FindOneBy("username", ToLowerCase(r.args[1])) = NoDoc) =>
                 (r.resp = 401 /\ AnsweredOnArrival("login")')
           /\ (given /\ r.loaded # NoDoc /\ r.args[2] # r.loaded.password) => r.resp = 401
           /\ r.resp \in {400, 401} => tokens' = tokens ]_vars

\* a login with a wrong password for a candidate that was read closed is
\* answered 401
C26_Witness ==
  /\ Answered("login") /\ response.resp = 401
  /\ response.loaded # NoDoc /\ Closed(response.loaded)
  /\ response.args[2] # response.loaded.password

\* this step is a step of a login request: it arrives or it is answered
LoginStep ==
  \/ Admitted("login", NoToken)
  \/ Answered("login")'

\* C27: a step of a login changes no candidate record, whatever its
\* outcome; a login with the right password that read the candidate with an
\* empty result is answered 200 with a token for that candidate, however
\* many tokens were issued before or logins are in flight
C27_LoginReadOnly ==
  [][ /\ LoginStep =>
           /\ candidates' = candidates
           /\ verdictWrites' = verdictWrites
           /\ resultMails' = resultMails
      /\ (LoginAnswered' /\ ~Closed(response'.loaded)) =>
           /\ response'.resp = 200
           /\ response'.out = <<TestTakerToken(response'.loaded, QuestionBankNameOf(response'.loaded))>>
           /\ response'.out[1] \in tokens' ]_vars

\* a login succeeds for an open candidate whose token was issued before,
\* while another login of the candidate is waiting for bcrypt.compare
C27_Witness ==
  /\ LoginAnswered /\ response.resp = 200
  /\ response.out[1] \in tokens
  /\ candidates[response.loaded.id] = Invitee
  /\ \E q \in InFlight : q.kind = "login" /\ q.pc = "compare"

\* the stored questions with the given id
StoredWithId(id) == {questions[k] : k \in {k \in 1..Len(questions) : questions[k].qid = id}}

\* C28: every test-taker token carries the bank name program + ' ' + project
\* (trimmed) of its candidate, and every question an exam returns is a
\* stored question of that bank and of no other bank
C28_OwnBankOnly ==
  [][ /\ \A tok \in tokens' :
           tok.scope = "test-taker" => tok.bank = QuestionBankNameOf(candidates[tok.id])
      /\ ExamReturned' =>
           LET bank == QuestionBankNameOf(candidates[response'.tok.id])
           IN \A k \in 1..Len(response'.out) :
                /\ StoredWithId(response'.out[k].id) # {}
                /\ \A x \in StoredWithId(response'.out[k].id) : x.bank = bank ]_vars

\* an exam of three questions is returned to the candidate of bank 'Go Be'
\* while the store holds a hard question of another bank
C28_Witness ==
  /\ ExamReturned /\ Len(response.out) = 3
  /\ response.tok.bank = GoBe
  /\ \E k \in 1..Len(questions) : questions[k].bank # GoBe /\ questions[k].type = <<"hard">>

\* this step is a step of a request of the given kind: it arrives, resumes
\* after an await, or is answered
StepOf(kind) ==
  \/ \E q \in BagToSet(reqs') : q.kind = kind /\ CopiesIn(q, reqs') > CopiesIn(q, reqs)
  \/ \E q \in BagToSet(reqs) : q.kind = kind /\ CopiesIn(q, reqs') < CopiesIn(q, reqs)
  \/ Answered(kind)'

\* the fields of a candidate record other than the password
KeptByResend == DOMAIN NoDoc \ {"password"}

\* C29: no step removes a candidate or empties the result of a closed one;
\* a step of resend-credentials changes nothing but the password of a
\* candidate, a step of onboard changes no stored candidate, and an onboard
\* whose lowercased email is stored is answered 409 on arrival and goes no
\* further; a login
\* with the right password that reads a closed candidate is answered 403
\* without a token, also after its credentials were resent
C29_NeverReopened ==
  [][ /\ Len(candidates') >= Len(candidates)
      /\ \A i \in 1..Len(candidates) :
           /\ Closed(candidates[i]) => Closed(candidates'[i])
           /\ StepOf("resend") =>
                \A f \in KeptByResend : candidates'[i][f] = candidates[i][f]
           /\ StepOf("onboard") => candidates'[i] = candidates[i]
      /\ \A q \in BagToSet(reqs') :
           (q.kind = "onboard" /\ CopiesIn(q, reqs') > CopiesIn(q, reqs)) =>
             FindOneBy("email", ToLowerCase(q.args[1])) = NoDoc
      /\ (Answered("onboard")' /\ reqs' = reqs
            /\ Authorize(response'.tok, {"TA", "Manager", "Owner"}, "enrollment") = 0) =>
           /\ FindOneBy("email", ToLowerCase(response'.args[1])) # NoDoc
           /\ response'.resp = 409
           /\ candidates' = candidates
      /\ (LoginAnswered' /\ Closed(response'.loaded)) =>
           (response'.resp = 403 /\ tokens' = tokens) ]_vars

\* a candidate was closed, its credentials were resent, and a login with
\* the resent password is answered 403
C29_Witness ==
  /\ LoginAnswered /\ response.resp = 403
  /\ response.loaded.password \in ResentPasswords
  /\ Closed(candidates[response.loaded.id])
  /\ verdictWrites[response.loaded.id] # <<>>

\* a test-taker token was issued for candidate i
TokenIssuedFor(i) == \E tok \in tokens : tok.scope = "test-taker" /\ tok.id = i

\* C30 as stated: a verdict is written for a candidate by submit or fail
\* only after an exam was returned for that candidate
C30_ExamBeforeVerdict ==
  \A i \in 1..Len(candidates) : verdictWrites[i] # <<>> => i \in examsServed

\* C30: a verdict is written for a candidate by submit or fail only after a
\* login issued a test-taker token for that candidate, and an exam is
\* returned for a candidate only after that too; an exam need not have been
\* returned before the verdict
C30_TokenBeforeVerdict ==
  \A i \in 1..Len(candidates) :
     (verdictWrites[i] # <<>> \/ i \in examsServed) => TokenIssuedFor(i)

\* a candidate was closed by a submit or a fail although no exam was ever
\* returned for it
C30_Witness ==
  \E i \in 1..Len(candidates) :
     /\ verdictWrites[i] # <<>> /\ Closed(candidates[i])
     /\ i \notin examsServed
     /\ TokenIssuedFor(i)


\* the number k as an id shows it: padded with zeros to three digits
Numbered ==
  { [n |-> 1, text |-> <<"0", "0", "1">>], [n |-> 2, text |-> <<"0", "0", "2">>],
    [n |-> 3, text |-> <<"0", "0", "3">>], [n |-> 4, text |-> <<"0", "0", "4">>],
    [n |-> 9, text |-> <<"0", "0", "9">>], [n |-> 10, text |-> <<"0", "1", "0">>],
    [n |-> 99, text |-> <<"0", "9", "9">>], [n |-> 100, text |-> <<"1", "0", "0">>],
    [n |-> 999, text |-> <<"9", "9", "9">>],
    [n |-> 1000, text |-> <<"1", "0", "0", "0">>] }

\* the id the claim gives to the n-th question of the bank of a table row
IdOf(row, n) == row.prefix \o (CHOOSE r \in Numbered : r.n = n).text

\* the questions of a bank in the order they were stored
StoredIn(questionBankName) ==
  SelectSeq(questions, LAMBDA x : x.bank = questionBankName)

\* C31: an add to a bank holding c questions computes the id made of the
\* uppercased initials of the first and last word of the bank name (one
\* initial for a one-word name) and c + 1 padded with zeros to at least three
\* digits; adds handled one after another with no delete leave the k
\* questions of a bank with the ids numbered 001..k in order
C31_IdsInSequence ==
  /\ \A row \in IdTable, r \in Numbered :
       NewQuestionId(row.name, r.n - 1) = row.prefix \o r.text
  /\ \A row \in IdTable :
       /\ \A k \in 1..Len(StoredIn(row.name)) : StoredIn(row.name)[k].qid = IdOf(row, k)
       /\ \A q \in InFlight :
            (q.kind = "add" /\ q.args[1] = row.name) =>
              q.args[3] = IdOf(row, Len(StoredIn(row.name)) + 1)

\* two adds to the one-word bank were stored, another add never having run
\* at the same time
C31_Witness ==
  /\ Len(StoredIn(<<"u", "a">>)) = 2
  /\ Answered("add") /\ response.resp = 201

\* C32: with every request handled alone, an add computes an id that no
\* stored question has and is stored (201), also after a delete and with a
\* second bank of the same prefix
C32_AddSucceeds ==
  /\ \A q \in InFlight : q.kind = "add" => ~DuplicateQuestionId(q.args[3])
  /\ ~AddRefused

\* C33: an update or delete by an authorized user naming an id that no
\* stored question has is answered 404 and leaves every stored question
\* unchanged
C33_UnknownIdNotFound ==
  [][ \A kind \in {"put", "delete"} :
        (Answered(kind)'
           /\ Authorize(response'.tok, QuizzerRoles, "quizzer") = 0
           /\ ~DuplicateQuestionId(response'.args[2])) =>
          (response'.resp = 404 /\ questions' = questions) ]_vars

\* a delete naming an id that is not stored is answered 404 while questions
\* are stored
C33_Witness ==
  /\ Answered("delete") /\ response.resp = 404
  /\ Authorize(response.tok, QuizzerRoles, "quizzer") = 0
  /\ questions # <<>>
  /\ ~DuplicateQuestionId(response.args[2])

\* C34: an update that succeeds changes the content of the question that
\* has the id named (here its tier, trimmed and lowercased) and nothing
\* else: every question keeps its questionId and its bank name, no question
\* is added or removed, and every other question is unchanged
C34_UpdateKeepsIdentity ==
  [][ (Answered("put")' /\ response'.resp = 200) =>
        /\ Len(questions') = Len(questions)
        /\ \A i \in 1..Len(questions) :
             /\ questions'[i].qid = questions[i].qid
             /\ questions'[i].bank = questions[i].bank
             /\ IF questions[i].qid = response'.args[2]
                  THEN questions'[i].type = <<"hard">>
                  ELSE questions'[i] = questions[i] ]_vars

\* an update changed the tier of one of two stored questions
C34_Witness ==
  /\ Answered("put") /\ response.resp = 200
  /\ Len(questions) = 2
  /\ \E i, j \in 1..2 : /\ questions[i].qid = response.args[2]
                        /\ questions[i].type = <<"hard">>
                        /\ questions[j].type = <<"easy">>

\* the arrangements of the elements of a list without repetition
Arrangements(arr) ==
  {p \in [1..Len(arr) -> Range(arr)] : \A i, j \in 1..Len(arr) : p[i] = p[j] => i = j}

\* the lists shuffleArray can leave in place of arr
Shuffles(arr) == {shuffleArray(arr, rnd) : rnd \in RandomDraws(Len(arr))}

\* the ids of the questions of the exam in the last response
ExamIds == {response.out[k].id : k \in 1..Len(response.out)}

\* the stored questions of a bank and tier that the exam leaves out
LeftOut(bank, type) ==
  {i \in 1..Len(questions) :
     questions[i].bank = bank /\ questions[i].type = type /\ questions[i].qid \notin ExamIds}

\* C35: the lists shuffleArray can leave in place of the questions of a tier
\* are exactly the permutations of that list; no question appears twice in
\* an assembled exam, every question of it is a question of the bank, and of
\* each tier exactly the surplus beyond the scarcest tier is left out
C35_ShufflePermutes ==
  (Answered("setup") /\ response.resp = 200) =>
     LET bank == response.tok.bank IN
     /\ \A t \in ThreeTiers :
          Shuffles(OfType(FindQuestions(bank), t)) = Arrangements(OfType(FindQuestions(bank), t))
     /\ \A i, j \in 1..Len(response.out) : response.out[i].id = response.out[j].id => i = j
     /\ \A id \in ExamIds : \E x \in Range(FindQuestions(bank)) : x.qid = id
     /\ \A t \in ThreeTiers :
          Cardinality(LeftOut(bank, t)) = BankCount(bank, t) - Scarcest(bank)

\* an exam of one triplet was served from a bank with two hard questions,
\* and the hard question stored first is the one left out
C35_Witness ==
  /\ Answered("setup") /\ response.resp = 200 /\ Len(response.out) = 3
  /\ BankCount(response.tok.bank, <<"hard">>) = 2
  /\ BankCount(response.tok.bank, <<"easy">>) = 1
  /\ \E i \in LeftOut(response.tok.bank, <<"hard">>) :
       \E k \in (i + 1)..Len(questions) :
          questions[k].type = <<"hard">> /\ questions[k].qid \in ExamIds

VerdictLabels == {<<"Pass">>, <<"Fail">>, <<"Not Qualified">>}

\* C36: a candidate whose status is 'Pass', 'Fail' or 'Not Qualified' has a
\* non-empty result, so the login guard holds of a candidate exactly when
\* its result is non-empty, and a login refused with 403 read a non-empty
\* result
C36_VerdictHasResult ==
  /\ \A i \in 1..Len(candidates) :
       /\ candidates[i].status \in VerdictLabels => Truthy(candidates[i].result)
       /\ AlreadyAttempted(candidates[i]) <=> Truthy(candidates[i].result)
  /\ \A q \in InFlight :
       q.loaded # NoDoc =>
         /\ q.loaded.status \in VerdictLabels => Truthy(q.loaded.result)
         /\ AlreadyAttempted(q.loaded) <=> Truthy(q.loaded.result)
  /\ (LoginAnswered /\ response.resp = 403) => Truthy(response.loaded.result)

\* a login with the right password for a 'Not Qualified' candidate is
\* answered 403
C36_Witness ==
  /\ LoginAnswered /\ response.resp = 403
  /\ response.loaded.status = <<"Not Qualified">>
  /\ Truthy(response.loaded.result)

\* C37: a submit whose scoreString is missing or holds no '/' is answered
\* with an error on arrival (500 when the token is valid and the candidate
\* is open) and never reaches its save: the step changes no candidate
\* record, writes no verdict and sends no mail
C37_BadScoreStringRefused ==
  [][ /\ \A q \in BagToSet(reqs') : q.kind = "submit" => ~SplitThrows(q.args[2])
      /\ (Answered("submit")' /\ SplitThrows(response'.args[2])) =>
           /\ response'.resp >= 400
           /\ reqs' = reqs
           /\ candidates' = candidates
           /\ verdictWrites' = verdictWrites
           /\ resultMails' = resultMails
           /\ (Authorize(response'.tok, {}, "test-taker") = 0
                 /\ ~Closed(FindById(response'.tok.id))) => response'.resp = 500 ]_vars

\* a submit whose scoreString holds no '/' is answered 500 while the
\* candidate is open and a fail of the candidate waits for its save
C37_Witness ==
  /\ Answered("submit") /\ response.resp = 500
  /\ response.args[2] = <<"1", "5">>
  /\ candidates[response.tok.id] = Invitee
  /\ \E q \in InFlight : q.kind = "fail" /\ q.pc = "save"

\* the request q, in flight and about to save a user, takes the step
SavesUser(q, kind, scope) ==
  /\ q.kind = kind /\ q.pc = "save"
  /\ q.tok.scope = scope
  /\ CopiesIn(q, reqs') < CopiesIn(q, reqs)

\* the kinds of request that create a user
UserKinds == {"ta-onboard", "register"}

\* C38: an Owner is stored in either user collection only by the save of a
\* request whose token has the role Owner. No request asking for the role
\* Owner under a token of another role is let past the checks of its arrival:
\* it is answered there with an error, stores no user and no programme, and
\* when its token is a valid Manager token of the application (and, for
\* tas/onboard, the body has its names and email) the error is 403.
C38_OwnersByOwners ==
  [][ /\ \A u \in enrollmentUsers' \ enrollmentUsers : u.role = "Owner" =>
            \E q \in BagToSet(reqs) : /\ SavesUser(q, "ta-onboard", "enrollment")
                                      /\ q.tok.role = "Owner" /\ q.args[4] = "Owner"
      /\ \A u \in quizzerUsers' \ quizzerUsers : u.role = "Owner" =>
            \E q \in BagToSet(reqs) : /\ SavesUser(q, "register", "quizzer")
                                      /\ q.tok.role = "Owner" /\ q.args[4] = "Owner"
      /\ \A q \in BagToSet(reqs') :
            (q.kind \in UserKinds /\ q.args[4] = "Owner") => q.tok.role = "Owner"
      /\ \A kind \in UserKinds :
            (Answered(kind)' /\ response'.args[4] = "Owner" /\ response'.tok.role # "Owner") =>
               /\ response'.resp >= 400
               /\ reqs' = reqs
               /\ enrollmentUsers' = enrollmentUsers
               /\ quizzerUsers' = quizzerUsers
               /\ programmes' = programmes
               /\ (kind = "ta-onboard"
                     /\ Authorize(response'.tok, {"Manager"}, "enrollment") = 0
                     /\ Truthy(response'.args[1]) /\ Truthy(response'.args[2])
                     /\ Truthy(response'.args[3])) => response'.resp = 403
               /\ (kind = "register"
                     /\ Authorize(response'.tok, {"Manager"}, "quizzer") = 0) =>
                    response'.resp = 403 ]_vars

\* the Owner of the enrollment application has onboarded a Manager, who has
\* logged in and asks for an Owner under an address: refused with 403; the
\* quizzer holds an Owner its own Owner has registered
C38_Witness ==
  /\ Answered("ta-onboard") /\ response.resp = 403
  /\ response.tok = AdminToken("enrollment", "Manager", <<"a">>)
  /\ response.args[4] = "Owner"
  /\ \E u \in enrollmentUsers : u.email = <<"a">> /\ u.role = "Manager"
  /\ \E u \in quizzerUsers : u.email = <<"a">> /\ u.role = "Owner"

\* a request of the identity id is in flight
Waiting(id) == \E q \in InFlight : SameRequest(q, id)

\* the last step has answered a request of the identity id
AnsweredTo(id) == response.pc = "done" /\ SameRequest(response, id)

\* C39: every login, setup, submit and fail request in flight is answered in
\* the end, whichever of its awaited calls return or fail; a request whose
\* candidate has no record is answered in the step of its arrival; and a
\* request is answered once: a
\* response either answers a request on its arrival or takes exactly the
\* answered request out of the requests in flight, and no request leaves
\* them without a response.
C39_AnsweredOnce ==
  /\ \A id \in AwaitingIds : Waiting(id) ~> AnsweredTo(id)
  /\ [][ \A q \in BagToSet(reqs') : \E id \in AwaitingIds : SameRequest(q, id) ]_vars
  /\ [][ IF response'.pc = "done"
           THEN \/ reqs' = reqs
                \/ \E q \in BagToSet(reqs) :
                      /\ q.kind = response'.kind /\ q.tok = response'.tok
                      /\ q.args = response'.args
                      /\ reqs' = reqs (-) SetToBag({q})
           ELSE BagCardinality(reqs') >= BagCardinality(reqs) ]_vars

\* a submit has saved its verdict, the mail of its result has failed and the
\* catch has answered it with 500
C39_Witness ==
  /\ Answered("submit") /\ response.resp = 500
  /\ response.wrote /\ response.handed
  /\ resultMails[1] = 0
==============================================================================
